---- MODULE Spec2Model ----
(***************************************************************************)
(* Model of the build-history scraper (main.ts, types.ts): one run loads   *)
(* data.json, fetches the Foundry page, extracts the embedded config,      *)
(* reconciles the build list, records a check and writes data.json back.   *)
(*                                                                         *)
(* Timestamps are the clock's millisecond count; toISOString() of a        *)
(* four-digit-year date is a fixed-width rendering of that count, so the   *)
(* order of the strings is the order of the counts.  The clock is the      *)
(* external collaborator of the spec and is taken to be non-decreasing.    *)
(* data.json is absent, or holds the document a completed writeData left  *)
(* (kind "json"), or holds text that some other writer or an interrupted   *)
(* write left (kind "text", the lexemes of the text).  Reading either goes *)
(* through JSON.parse and the shape test of readData.                      *)
(***************************************************************************)
EXTENDS Integers, Sequences, FiniteSets, TLC

\* ------------------------------------------------------------------ bounds
MaxRuns == 2
MaxRunsLong == 1
MaxTick == 1
MaxElapsed == 1
MaxElapsedBrief == 0

\* --------------------------------------------------------------- constants
MAX_CHECKS == 168

\* ------------------------------------------------------------- JSON values
\* A parsed JSON value: a string, a number, a boolean, an array, an object
\* (a function from keys to values) or null.  Undefined is JavaScript's
\* undefined.
JStr(s) == [t |-> "str", s |-> s]
JNum(n) == [t |-> "num", n |-> n]
JBool(b) == [t |-> "bool", b |-> b]
JArr(a) == [t |-> "arr", a |-> a]
JObj(o) == [t |-> "obj", o |-> o]
JNull == [t |-> "null"]
Undefined == [t |-> "undefined"]

\* Truthiness with the empty string taken for true (a test against
\* undefined and null only).
Truthy_EmptyStringTrue(v) ==
  CASE v.t = "str" -> TRUE
    [] v.t = "num" -> v.n # 0
    [] v.t = "bool" -> v.b
    [] v.t = "obj" -> TRUE
    [] v.t = "arr" -> TRUE
    [] OTHER -> FALSE

\* JavaScript truthiness, as used by `!config` and `!...buildNumber`.
Truthy(v) ==
  CASE v.t = "str" -> v.s # ""
    [] v.t = "num" -> v.n # 0
    [] v.t = "bool" -> v.b
    [] v.t = "obj" -> TRUE
    [] v.t = "arr" -> TRUE
    [] OTHER -> FALSE

\* typeof v === "object": objects, arrays and null.
TypeofObject(v) == v.t \in {"obj", "arr", "null"}

\* Array.isArray(v)
IsArray(v) == v.t = "arr"

\* v.k where v is known not to be null or undefined, and v?.k otherwise.
GetProp(v, k) ==
  IF v.t = "obj" /\ k \in DOMAIN v.o THEN v.o[k] ELSE Undefined

PutProp(o, k, v) == [x \in (DOMAIN o) \cup {k} |-> IF x = k THEN v ELSE o[x]]

\* ------------------------------------------------------- percent decoding
\* The script block's text is a sequence of lexemes: an escape ("%7B"), a
\* run of unreserved characters ("buildNumber"), or a literal character.
PctEscapes == [e \in {"%7B", "%7D", "%22", "%3A", "%2C"} |->
  CASE e = "%7B" -> "{"
    [] e = "%7D" -> "}"
    [] e = "%22" -> "\""
    [] e = "%3A" -> ":"
    [] e = "%2C" -> ","]

\* A lone "%", or "%" followed by something that is not two hex digits.
MalformedEscapes == {"%", "%zz"}

\* decodeURIComponent: [ok |-> TRUE, text |-> decoded] or URIError.
DecodeURIComponent(content) ==
  IF \E i \in 1..Len(content) : content[i] \in MalformedEscapes
  THEN [ok |-> FALSE, error |-> "URI malformed"]
  ELSE [ok |-> TRUE,
        text |-> [i \in 1..Len(content) |->
                    IF content[i] \in DOMAIN PctEscapes
                    THEN PctEscapes[content[i]] ELSE content[i]]]

\* ------------------------------------------------------------- JSON.parse
Punctuation == {"{", "}", "[", "]", "\"", ":", ","}
IsWord(x) == x \notin Punctuation /\ x \notin DOMAIN PctEscapes /\ x \notin MalformedEscapes

\* The number lexemes: the decimal numerals of the integers a document of
\* the model holds (clock readings, durations, HTTP status codes).
Numerals == 0..999
NumeralLexemes == {ToString(n) : n \in Numerals}
NumeralValue(x) == CHOOSE n \in Numerals : ToString(n) = x

ParseFail == [ok |-> FALSE]
Parsed(v, n) == [ok |-> TRUE, val |-> v, next |-> n]

RECURSIVE ParseValue(_, _)
RECURSIVE ParseMembers(_, _, _)
RECURSIVE ParseElements(_, _, _)

\* value ::= string | object | array | number | true | false | null,
\* starting at lexeme i.
ParseValue(t, i) ==
  IF i > Len(t) THEN ParseFail
  ELSE IF t[i] = "\"" THEN
    IF i + 1 <= Len(t) /\ t[i + 1] = "\"" THEN Parsed(JStr(""), i + 2)
    ELSE IF i + 2 <= Len(t) /\ IsWord(t[i + 1]) /\ t[i + 2] = "\""
      THEN Parsed(JStr(t[i + 1]), i + 3)
    ELSE ParseFail
  ELSE IF t[i] = "{" THEN
    IF i + 1 <= Len(t) /\ t[i + 1] = "}" THEN Parsed(JObj(<<>>), i + 2)
    ELSE ParseMembers(t, i + 1, <<>>)
  ELSE IF t[i] = "[" THEN
    IF i + 1 <= Len(t) /\ t[i + 1] = "]" THEN Parsed(JArr(<<>>), i + 2)
    ELSE ParseElements(t, i + 1, <<>>)
  ELSE IF t[i] = "null" THEN Parsed(JNull, i + 1)
  ELSE IF t[i] = "true" THEN Parsed(JBool(TRUE), i + 1)
  ELSE IF t[i] = "false" THEN Parsed(JBool(FALSE), i + 1)
  ELSE IF t[i] \in NumeralLexemes THEN Parsed(JNum(NumeralValue(t[i])), i + 1)
  ELSE ParseFail

\* elements ::= value ( "," elements | "]" )
ParseElements(t, i, acc) ==
  LET Rest(v) ==
        IF ~v.ok THEN ParseFail
        ELSE IF v.next > Len(t) THEN ParseFail
        ELSE IF t[v.next] = "]" THEN Parsed(JArr(Append(acc, v.val)), v.next + 1)
        ELSE IF t[v.next] = "," THEN ParseElements(t, v.next + 1, Append(acc, v.val))
        ELSE ParseFail
  IN CHOOSE r \in {Rest(v) : v \in {ParseValue(t, i)}} : TRUE

\* members ::= string ":" value ( "," members | "}" ); a repeated key keeps
\* the last value.
ParseMembers(t, i, acc) ==
  LET Rest(k, v) ==
        IF ~v.ok THEN ParseFail
        ELSE IF v.next > Len(t) THEN ParseFail
        ELSE IF t[v.next] = "}" THEN Parsed(JObj(PutProp(acc, k.val.s, v.val)), v.next + 1)
        ELSE IF t[v.next] = "," THEN ParseMembers(t, v.next + 1, PutProp(acc, k.val.s, v.val))
        ELSE ParseFail
      Member(k) ==
        IF ~k.ok THEN ParseFail
        ELSE IF k.val.t # "str" THEN ParseFail
        ELSE IF k.next > Len(t) THEN ParseFail
        ELSE IF t[k.next] # ":" THEN ParseFail
        ELSE CHOOSE r \in {Rest(k, v) : v \in {ParseValue(t, k.next + 1)}} : TRUE
  IN CHOOSE r \in {Member(k) : k \in {ParseValue(t, i)}} : TRUE

\* JSON.parse: the whole text must be one value.
JSONParse(text) ==
  LET Whole(r) ==
        IF r.ok /\ r.next = Len(text) + 1
        THEN [ok |-> TRUE, val |-> r.val]
        ELSE [ok |-> FALSE, error |-> "Unexpected token in JSON"]
  IN CHOOSE w \in {Whole(r) : r \in {ParseValue(text, 1)}} : TRUE

\* --------------------------------------------------------- JSON.stringify
RECURSIVE SetToSeq(_)
\* The keys of an object, one after the other.  JSON.stringify writes them
\* in insertion order; JSON.parse does not depend on the order, and a fixed
\* one is taken.
SetToSeq(S) ==
  IF S = {} THEN <<>>
  ELSE LET x == CHOOSE y \in S : TRUE IN <<x>> \o SetToSeq(S \ {x})

RECURSIVE JSONStringify(_)
RECURSIVE StringifyElements(_, _)
RECURSIVE StringifyMembers(_, _, _)

\* JSON.stringify(v, null, 2), as the lexemes of the text; the white space
\* between them is left out (JSON.parse skips it).
JSONStringify(v) ==
  CASE v.t = "str" -> IF v.s = "" THEN <<"\"", "\"">> ELSE <<"\"", v.s, "\"">>
    [] v.t = "num" -> <<ToString(v.n)>>
    [] v.t = "bool" -> <<IF v.b THEN "true" ELSE "false">>
    [] v.t = "null" -> <<"null">>
    [] v.t = "arr" -> <<"[">> \o StringifyElements(v.a, 1) \o <<"]">>
    [] v.t = "obj" -> <<"{">> \o StringifyMembers(v.o, SetToSeq(DOMAIN v.o), 1) \o <<"}">>

StringifyElements(a, i) ==
  IF i > Len(a) THEN <<>>
  ELSE JSONStringify(a[i]) \o (IF i < Len(a) THEN <<",">> ELSE <<>>)
         \o StringifyElements(a, i + 1)

StringifyMembers(o, keys, i) ==
  IF i > Len(keys) THEN <<>>
  ELSE <<"\"", keys[i], "\"", ":">> \o JSONStringify(o[keys[i]])
         \o (IF i < Len(keys) THEN <<",">> ELSE <<>>)
         \o StringifyMembers(o, keys, i + 1)

\* ------------------------------------------------------------------ pages
\* A page is what the regular expression of extractFoundryConfig sees of
\* it: whether the script block is there, and the block's trimmed text.
NoMarkerPage == [marker |-> FALSE, content |-> <<>>]
MarkerPage(content) == [marker |-> TRUE, content |-> content]

EncStr(s) == IF s = "" THEN <<"%22", "%22">> ELSE <<"%22", s, "%22">>
EncEnv(members) == <<"%7B">> \o EncStr("environment") \o <<"%3A", "%7B">> \o members \o <<"%7D", "%7D">>
EncPair(k, v) == EncStr(k) \o <<"%3A">> \o EncStr(v)

\* extractFoundryConfig: [threw |-> FALSE, config |-> value or Undefined],
\* or [threw |-> TRUE, error |-> message] when an exception leaves it.
extractFoundryConfig(html) ==
  IF html.marker THEN
    LET decoded == DecodeURIComponent(html.content) IN
    IF ~decoded.ok THEN [threw |-> TRUE, error |-> decoded.error]
    ELSE LET parsed == JSONParse(decoded.text) IN
      IF parsed.ok THEN [threw |-> FALSE, config |-> parsed.val]
      ELSE [threw |-> FALSE, config |-> Undefined]
  ELSE [threw |-> FALSE, config |-> Undefined]

\* -------------------------------------------------------------- responses
\* What fetch() resolves to: status, statusText and the body res.text()
\* would give.  res.ok is status in 200..299.
Response(status, statusText, body) ==
  [status |-> status, statusText |-> statusText, body |-> body]
ResOk(res) == res.status >= 200 /\ res.status <= 299

PageB1East == MarkerPage(EncEnv(EncPair("buildNumber", "B-1") \o <<"%2C">> \o EncPair("region", "eastus2")))
PageB1West == MarkerPage(EncEnv(EncPair("region", "westus") \o <<"%2C">> \o EncPair("buildNumber", "B-1")))
PageB2 == MarkerPage(EncEnv(EncPair("buildNumber", "B-2") \o <<"%2C">> \o EncPair("name", "prod")))
PageNoEnvironment == MarkerPage(<<"%7B", "%7D">>)
PageNoBuildNumber == MarkerPage(EncEnv(EncPair("region", "eastus2")))
PageEmptyBuildNumber == MarkerPage(EncEnv(EncPair("buildNumber", "")))
PageNull == MarkerPage(<<"null">>)
PageBadJson == MarkerPage(<<"%7B", "%22", "environment", "%22">>)
PageB3 == MarkerPage(EncEnv(EncPair("buildNumber", "B-3")))
PageBadEscape == MarkerPage(EncEnv(EncPair("buildNumber", "B-1")) \o <<"%">>)

Pages == {NoMarkerPage, PageB1East, PageB1West, PageB2, PageB3, PageNoEnvironment,
          PageNoBuildNumber, PageEmptyBuildNumber, PageNull, PageBadJson,
          PageBadEscape}

Responses ==
  {Response(200, "OK", b) : b \in Pages}
    \cup {Response(404, "Not Found", PageB2)}

\* ------------------------------------------------------- history document
EmptyData(now) == [lastUpdatedAt |-> now, builds |-> <<>>, checks |-> <<>>]

\* The content of data.json: no file; the text writeData wrote of a
\* document, held as that document; or any other text, held as its lexemes.
Absent == [kind |-> "absent"]
Json(doc) == [kind |-> "json", doc |-> doc]
Text(text) == [kind |-> "text", text |-> text]

\* The fields of a Check and of a FoundryBuild, by the type of their value
\* (types.ts): timestamps and counts are numbers here.
NumberFields == {"lastUpdatedAt", "checkedAt", "durationMs", "httpStatus",
                 "firstSeenAt", "lastSeenAt"}
BooleanFields == {"isNewBuild"}

\* A Check, a FoundryBuild and a Data as the JSON values JSON.stringify
\* walks.  foundryEnv and rawConfig hold parsed JSON already.
CheckToJson(c) ==
  JObj([k \in DOMAIN c |->
          IF k \in NumberFields THEN JNum(c[k])
          ELSE IF k \in BooleanFields THEN JBool(c[k])
          ELSE JStr(c[k])])
BuildToJson(b) ==
  JObj([firstSeenAt |-> JNum(b.firstSeenAt),
        lastSeenAt |-> JNum(b.lastSeenAt),
        foundryEnv |-> JObj(b.foundryEnv),
        rawConfig |-> b.rawConfig])
DataToJson(d) ==
  JObj([k \in DOMAIN d |->
          CASE k = "builds" -> JArr([i \in 1..Len(d.builds) |-> BuildToJson(d.builds[i])])
            [] k = "checks" -> JArr([i \in 1..Len(d.checks) |-> CheckToJson(d.checks[i])])
            [] OTHER -> JNum(d[k])])

\* The way back: a parsed value taken `as Data`, its builds and checks
\* being arrays of well-typed records.
CheckFromJson(v) ==
  [k \in DOMAIN v.o |->
     CASE v.o[k].t = "num" -> v.o[k].n
       [] v.o[k].t = "bool" -> v.o[k].b
       [] v.o[k].t = "str" -> v.o[k].s]
BuildFromJson(v) ==
  [firstSeenAt |-> v.o.firstSeenAt.n,
   lastSeenAt |-> v.o.lastSeenAt.n,
   foundryEnv |-> v.o.foundryEnv.o,
   rawConfig |-> v.o.rawConfig]
DataFromJson(v) ==
  [k \in DOMAIN v.o |->
     CASE k = "builds" -> [i \in 1..Len(v.o.builds.a) |-> BuildFromJson(v.o.builds.a[i])]
       [] k = "checks" -> [i \in 1..Len(v.o.checks.a) |-> CheckFromJson(v.o.checks.a[i])]
       [] OTHER -> v.o[k].n]

\* What can go wrong with readFile besides the file not being there.
NoFault == "none"
ReadFaults == {"EACCES"}

Thrown(err) == [ok |-> FALSE, err |-> err]

\* readFile(filePath, "utf-8"): the content, or a system error with a code.
readFile(content, fault) ==
  IF fault # NoFault
  THEN Thrown([code |-> fault,
               message |-> fault \o ": permission denied, open './data.json'"])
  ELSE IF content.kind = "absent"
  THEN Thrown([code |-> "ENOENT",
               message |-> "ENOENT: no such file or directory, open './data.json'"])
  ELSE [ok |-> TRUE, content |-> content]

\* Lines 13-17 with one more test, Array.isArray(data.checks).
HasRequiredShape_RequiresChecks(v) ==
  TypeofObject(v) /\ v # JNull /\ IsArray(GetProp(v, "builds"))
    /\ IsArray(GetProp(v, "checks"))

\* Lines 13-17 letting an object without builds pass.
HasRequiredShape_BuildsOptional(v) ==
  v.t = "obj" /\ (IsArray(GetProp(v, "builds")) \/ GetProp(v, "builds") = Undefined)

\* Lines 13-17: an object, not null, whose builds is an array.
HasRequiredShape(v) ==
  TypeofObject(v) /\ v # JNull /\ IsArray(GetProp(v, "builds"))

\* Lines 19-22: checks becomes [] unless it is an array; the object is
\* returned otherwise as parsed.
EnsureChecks(v) ==
  IF IsArray(GetProp(v, "checks")) THEN v
  ELSE JObj(PutProp(v.o, "checks", JArr(<<>>)))

\* Line 26 as a catch that takes every error for a missing file.
IsFileNotFound_AnyError(err) == TRUE

\* Line 26 with `error.code === "ENOENT"` left out: any error with a code.
IsFileNotFound_AnyCode(err) == "code" \in DOMAIN err

\* Line 26: "code" in error && error.code === "ENOENT"
IsFileNotFound(err) == "code" \in DOMAIN err /\ err.code = "ENOENT"

\* Lines 10-24, the try block: the document, or what is thrown.  The text
\* writeData wrote parses to the document written (Json).
ReadAndValidate(content, fault) ==
  LET file == readFile(content, fault) IN
  IF ~file.ok THEN file
  ELSE LET parsed == IF content.kind = "json"
                     THEN [ok |-> TRUE, val |-> DataToJson(content.doc)]
                     ELSE JSONParse(content.text)
       IN IF ~parsed.ok THEN Thrown([message |-> parsed.error])
          ELSE IF HasRequiredShape(parsed.val)
          THEN [ok |-> TRUE, data |-> DataFromJson(EnsureChecks(parsed.val))]
          ELSE Thrown([message |-> "invalid data structure in data.json"])

\* readData: [ok |-> TRUE, data |-> Data] or [ok |-> FALSE, error |-> message].
\* fault is what readFile runs into, now the clock at line 29.
readData(content, fault, now) ==
  LET attempt == ReadAndValidate(content, fault) IN
  IF attempt.ok THEN attempt
  ELSE IF IsFileNotFound(attempt.err)
  THEN [ok |-> TRUE, data |-> EmptyData(now)]
  ELSE [ok |-> FALSE, error |-> attempt.err.message]

\* writeData, when writeFile succeeds: the file holds the whole document.
writeData(data) == Json(data)

\* The text a writeFile cut short at its first lexeme leaves.
Partial == Text(<<"{">>)

\* The texts a writeFile of the document cut short at any lexeme leaves:
\* the strict prefixes of the text, the empty one among them.
InterruptedWriteContents(data) ==
  LET text == JSONStringify(DataToJson(data))
  IN {Text(SubSeq(text, 1, k)) : k \in 0..(Len(text) - 1)}

\* What data.json may hold after a writeFile that failed: it is opened with
\* flag "w", so either the open failed and the file is as before, or it was
\* truncated and holds a strict prefix of the text.
FailedWriteContents(content) == {content, Partial}

\* addCheckToData without the slice to MAX_CHECKS.
addCheckToData_Untrimmed(data, check) ==
  [data EXCEPT !.checks = <<check>> \o data.checks,
               !.lastUpdatedAt = check.checkedAt]

\* addCheckToData keeping the tail, slice(-MAX_CHECKS), instead of the head.
addCheckToData_KeepsTail(data, check) ==
  LET unshifted == <<check>> \o data.checks IN
  [data EXCEPT
    !.checks = IF Len(unshifted) > MAX_CHECKS
               THEN SubSeq(unshifted, Len(unshifted) - MAX_CHECKS + 1, Len(unshifted))
               ELSE unshifted,
    !.lastUpdatedAt = check.checkedAt]

\* addCheckToData with push in place of unshift.
addCheckToData_Pushes(data, check) ==
  LET pushed == data.checks \o <<check>> IN
  [data EXCEPT
    !.checks = IF Len(pushed) > MAX_CHECKS
               THEN SubSeq(pushed, 1, MAX_CHECKS)
               ELSE pushed,
    !.lastUpdatedAt = check.checkedAt]

\* addCheckToData without line 67, the assignment of lastUpdatedAt.
addCheckToData_KeepsLastUpdated(data, check) ==
  LET unshifted == <<check>> \o data.checks IN
  [data EXCEPT
    !.checks = IF Len(unshifted) > MAX_CHECKS
               THEN SubSeq(unshifted, 1, MAX_CHECKS)
               ELSE unshifted]

\* addCheckToData
addCheckToData(data, check) ==
  LET unshifted == <<check>> \o data.checks IN
  [data EXCEPT
    !.checks = IF Len(unshifted) > MAX_CHECKS
               THEN SubSeq(unshifted, 1, MAX_CHECKS)
               ELSE unshifted,
    !.lastUpdatedAt = check.checkedAt]

\* createCheck without the `...extra` of line 81.
createCheck_WithoutExtra(status, extra, startTime, t) ==
  [checkedAt |-> t, status |-> status, durationMs |-> t - startTime]

\* createCheck with checkedAt taken from startTime, not from the clock.
createCheck_AtStartTime(status, extra, startTime, t) ==
  extra @@ [checkedAt |-> startTime, status |-> status, durationMs |-> t - startTime]

\* createCheck; startTime is main's, t is the clock when it is called.
createCheck(status, extra, startTime, t) ==
  extra @@ [checkedAt |-> t, status |-> status, durationMs |-> t - startTime]

\* The check object of the last-resort handler.
UnknownErrorCheck(message, t) ==
  [checkedAt |-> t, status |-> "unknown_error", durationMs |-> 0,
   errorMessage |-> message]

\* === on two values of a parsed document: strings by content.
StrictEquals(a, b) == a.t = "str" /\ b.t = "str" /\ a.s = b.s

\* findIndex with a predicate that matches nothing.
findIndex_NoMatch(builds, buildNumber) == -1

\* Array.prototype.findIndex over builds, by buildNumber; positions count
\* from 1, and -1 is "none".
findIndex(builds, buildNumber) ==
  LET hits == {i \in 1..Len(builds) :
                 StrictEquals(GetProp(JObj(builds[i].foundryEnv), "buildNumber"), buildNumber)}
  IN IF hits = {} THEN -1
     ELSE CHOOSE i \in hits : \A j \in hits : i <= j

\* UpdateBuilds replacing the stored payload of a build seen again.
UpdateBuilds_Overwrites(builds, config, now) ==
  LET environment == config.o.environment.o
      buildNumber == environment.buildNumber
      existingBuildIndex == findIndex(builds, buildNumber)
      newBuild == [firstSeenAt |-> now,
                   lastSeenAt |-> now,
                   foundryEnv |-> environment,
                   rawConfig |-> config]
  IN IF existingBuildIndex # -1
     THEN [builds EXCEPT ![existingBuildIndex] =
             [newBuild EXCEPT !.firstSeenAt = builds[existingBuildIndex].firstSeenAt]]
     ELSE <<newBuild>> \o builds

\* UpdateBuilds with push in place of unshift.
UpdateBuilds_Appends(builds, config, now) ==
  LET environment == config.o.environment.o
      buildNumber == environment.buildNumber
      existingBuildIndex == findIndex(builds, buildNumber)
  IN IF existingBuildIndex # -1
     THEN [builds EXCEPT ![existingBuildIndex].lastSeenAt = now]
     ELSE builds \o <<[firstSeenAt |-> now,
                       lastSeenAt |-> now,
                       foundryEnv |-> environment,
                       rawConfig |-> config]>>

\* UpdateBuilds assigning firstSeenAt where lastSeenAt is meant.
UpdateBuilds_TouchesFirstSeen(builds, config, now) ==
  LET environment == config.o.environment.o
      buildNumber == environment.buildNumber
      existingBuildIndex == findIndex(builds, buildNumber)
  IN IF existingBuildIndex # -1
     THEN [builds EXCEPT ![existingBuildIndex].firstSeenAt = now]
     ELSE <<[firstSeenAt |-> now,
             lastSeenAt |-> now,
             foundryEnv |-> environment,
             rawConfig |-> config]>> \o builds

\* UpdateBuilds storing the rest of environment without putting
\* buildNumber back.
UpdateBuilds_DropsBuildNumber(builds, config, now) ==
  LET environment == config.o.environment.o
      buildNumber == environment.buildNumber
      foundryEnv == [k \in (DOMAIN environment) \ {"buildNumber"} |-> environment[k]]
      existingBuildIndex == findIndex(builds, buildNumber)
  IN IF existingBuildIndex # -1
     THEN [builds EXCEPT ![existingBuildIndex].lastSeenAt = now]
     ELSE <<[firstSeenAt |-> now,
             lastSeenAt |-> now,
             foundryEnv |-> foundryEnv,
             rawConfig |-> config]>> \o builds

\* UpdateBuilds with `data.builds = [newBuild]` in place of unshift.
UpdateBuilds_KeepsOnlyNewest(builds, config, now) ==
  LET environment == config.o.environment.o
      buildNumber == environment.buildNumber
      foundryEnv == [k \in (DOMAIN environment) \ {"buildNumber"} |-> environment[k]]
      existingBuildIndex == findIndex(builds, buildNumber)
  IN IF existingBuildIndex # -1
     THEN [builds EXCEPT ![existingBuildIndex].lastSeenAt = now]
     ELSE <<[firstSeenAt |-> now,
             lastSeenAt |-> now,
             foundryEnv |-> PutProp(foundryEnv, "buildNumber", buildNumber),
             rawConfig |-> config]>>

\* UpdateBuilds moving a build seen again to the front of the list.
UpdateBuilds_MovesToFront(builds, config, now) ==
  LET environment == config.o.environment.o
      buildNumber == environment.buildNumber
      foundryEnv == [k \in (DOMAIN environment) \ {"buildNumber"} |-> environment[k]]
      existingBuildIndex == findIndex(builds, buildNumber)
  IN IF existingBuildIndex # -1
     THEN <<[builds[existingBuildIndex] EXCEPT !.lastSeenAt = now]>>
            \o SubSeq(builds, 1, existingBuildIndex - 1)
            \o SubSeq(builds, existingBuildIndex + 1, Len(builds))
     ELSE <<[firstSeenAt |-> now,
             lastSeenAt |-> now,
             foundryEnv |-> PutProp(foundryEnv, "buildNumber", buildNumber),
             rawConfig |-> config]>> \o builds

\* Lines 139-163 of main: find the build, touch it or unshift a new one.
\* config.environment.buildNumber is known to be truthy here.
UpdateBuilds(builds, config, now) ==
  LET environment == config.o.environment.o
      buildNumber == environment.buildNumber
      foundryEnv == [k \in (DOMAIN environment) \ {"buildNumber"} |-> environment[k]]
      existingBuildIndex == findIndex(builds, buildNumber)
  IN IF existingBuildIndex # -1
     THEN [builds EXCEPT ![existingBuildIndex].lastSeenAt = now]
     ELSE <<[firstSeenAt |-> now,
             lastSeenAt |-> now,
             foundryEnv |-> PutProp(foundryEnv, "buildNumber", buildNumber),
             rawConfig |-> config]>> \o builds

\* main from `await res.text()` having resolved up to the next await: the
\* document and check to write and the exit code that follows the write,
\* or the exception that leaves main.
MainAfterText(data, res, startTime, now, checkedAt) ==
  LET extracted == extractFoundryConfig(res.body) IN
  IF extracted.threw THEN [threw |-> TRUE, error |-> extracted.error]
  ELSE LET config == extracted.config IN
    IF ~Truthy(config) THEN
      LET check == createCheck("parse_error",
                     [httpStatus |-> res.status,
                      errorMessage |-> "failed to extract config from HTML"],
                     startTime, checkedAt)
      IN [threw |-> FALSE, data |-> addCheckToData(data, check), check |-> check, exit |-> 1]
    ELSE IF ~Truthy(GetProp(GetProp(config, "environment"), "buildNumber")) THEN
      LET check == createCheck("missing_build_info",
                     [httpStatus |-> res.status,
                      errorMessage |-> "fonfig found but no buildNumber present"],
                     startTime, checkedAt)
      IN [threw |-> FALSE, data |-> addCheckToData(data, check), check |-> check, exit |-> 1]
    ELSE
      LET buildNumber == config.o.environment.o.buildNumber
          isNewBuild == findIndex(data.builds, buildNumber) = -1
          check == createCheck("ok",
                     [httpStatus |-> res.status,
                      buildNumber |-> buildNumber.s,
                      isNewBuild |-> isNewBuild],
                     startTime, checkedAt)
          updated == [data EXCEPT !.builds = UpdateBuilds(data.builds, config, now)]
      IN [threw |-> FALSE, data |-> addCheckToData(updated, check), check |-> check, exit |-> 0]

\* ------------------------------------------------------------------ state
\* Each run is a process of its own; Procs are the process slots.
Procs == {1, 2}

NoData == [none |-> TRUE]
NoCheck == [status |-> "none"]
NoResponse == [status |-> 0]

VARIABLES
  store,      \* content of data.json
  clock,      \* the wall clock, in ms
  left,       \* runs still to be started (bounds the exploration)
  budget,     \* ms the clock may still advance (bounds the exploration)
  log,        \* history: every check a completed writeData put at checks[0], newest first
  pc,         \* per process: where the run is
  startTime,  \* per process: main's startTime
  data,       \* per process: the document in memory
  res,        \* per process: the fetch response
  check,      \* per process: the check object the run built last
  exitPlan,   \* per process: the exit code main takes once its write returns
  error,      \* per process: the exception main rejected with
  exitCode,   \* per process: the process exit code, -1 while running
  before,     \* per process: history, the content of data.json when the run began
  loaded,     \* per process: history, the document readData returned to main
  ioFault,    \* per process: history, some file operation or res.text() failed
  swallowed,  \* per process: history, the handler's catch block was entered
  loads,      \* per process: history, the calls of readData so far
  saves,      \* per process: history, the calls of writeData so far
  saver,      \* history: the process whose writeData completed last, 0 if none
  seen,       \* per process: history, the content of data.json at its last readData
  recorded    \* per process: history, the checks the run's completed writeData calls put at checks[0]

vars == <<store, clock, left, budget, log, pc, startTime, data, res, check, exitPlan,
          error, exitCode, before, loaded, ioFault, swallowed, loads, saves, saver,
          seen, recorded>>

procVars == <<pc, startTime, data, res, check, exitPlan, error, exitCode,
              before, loaded, ioFault, swallowed, loads, saves, seen, recorded>>

\* The clock advances by d between two reads of it.
Ticks == 0..MaxTick
Advance(d) ==
  /\ d <= budget
  /\ clock' = clock + d
  /\ budget' = budget - d

Running(p) == pc[p] \notin {"idle", "exited"}

InitProcs ==
  /\ pc = [p \in Procs |-> "idle"]
  /\ startTime = [p \in Procs |-> 0]
  /\ data = [p \in Procs |-> NoData]
  /\ res = [p \in Procs |-> NoResponse]
  /\ check = [p \in Procs |-> NoCheck]
  /\ exitPlan = [p \in Procs |-> 0]
  /\ error = [p \in Procs |-> ""]
  /\ exitCode = [p \in Procs |-> -1]
  /\ before = [p \in Procs |-> Absent]
  /\ loaded = [p \in Procs |-> NoData]
  /\ ioFault = [p \in Procs |-> FALSE]
  /\ swallowed = [p \in Procs |-> FALSE]
  /\ loads = [p \in Procs |-> 0]
  /\ saves = [p \in Procs |-> 0]
  /\ saver = 0
  /\ seen = [p \in Procs |-> Absent]
  /\ recorded = [p \in Procs |-> <<>>]

\* The document after two runs from no data.json, each within one
\* millisecond: at clock 1 build B-1 is found, at clock 2 build B-2.
HistoryOfTwoBuilds ==
  LET first == MainAfterText(EmptyData(1), Response(200, "OK", PageB1East), 1, 1, 1)
  IN MainAfterText(first.data, Response(200, "OK", PageB2), 2, 2, 2).data

\* No data.json yet (the state of a fresh checkout), or the data.json that
\* two successful runs have left.
Init ==
  /\ \/ /\ store = Absent
        /\ clock = 0
        /\ log = <<>>
     \/ /\ store = Json(HistoryOfTwoBuilds)
        /\ clock = 2
        /\ log = HistoryOfTwoBuilds.checks
  /\ left = MaxRuns
  /\ budget = MaxElapsed
  /\ InitProcs

\* The check of run i of a row of runs from no data.json, run i starting
\* at clock i and ending in network_error within the same millisecond.
FailedRunCheck(i) ==
  createCheck("network_error", [errorMessage |-> "fetch failed"], i, i)

RECURSIVE AfterFailedRuns(_, _, _)
\* The document doc after runs lo..hi of the row, one after the other
\* (the test on `half` has TLC compute it before the runs that follow).
AfterFailedRuns(doc, lo, hi) ==
  IF lo > hi THEN doc
  ELSE IF lo = hi THEN addCheckToData(doc, FailedRunCheck(lo))
  ELSE LET mid == (lo + hi) \div 2
           half == AfterFailedRuns(doc, lo, mid)
       IN IF half.lastUpdatedAt = mid
          THEN AfterFailedRuns(half, mid + 1, hi)
          ELSE half

\* The document after n such runs.
HistoryOfFailedRuns(n) == AfterFailedRuns(EmptyData(0), 1, n)

\* The data.json that MAX_CHECKS - 1, MAX_CHECKS or MAX_CHECKS + 2 failed
\* runs have left.
InitLong ==
  \E n \in {MAX_CHECKS - 1, MAX_CHECKS, MAX_CHECKS + 2} :
    /\ store = Json(HistoryOfFailedRuns(n))
    /\ clock = n
    /\ left = MaxRunsLong
    /\ budget = MaxElapsed
    /\ log = [i \in 1..n |-> FailedRunCheck(n + 1 - i)]
    /\ InitProcs

\* JSON values a data.json not written by this version may hold.  The
\* first four have builds as an array: the document of two builds as it
\* is, without checks (an older version's), with checks null and with
\* checks an object.  The others do not: null, a string, a number, an
\* array, an object without builds, with builds null, with builds an
\* object, with builds a string.
StoredValues ==
  LET whole == DataToJson(HistoryOfTwoBuilds)
      older == [k \in {"lastUpdatedAt", "builds"} |-> whole.o[k]]
  IN {whole,
      JObj(older),
      JObj(PutProp(older, "checks", JNull)),
      JObj(PutProp(older, "checks", JObj(<<>>))),
      JNull,
      JStr("data"),
      JNum(0),
      JArr(<<>>),
      JObj(<<>>),
      JObj([k \in {"lastUpdatedAt", "checks"} |-> whole.o[k]]),
      JObj(PutProp(older, "builds", JNull)),
      JObj(PutProp(older, "builds", JObj(<<>>))),
      JObj(PutProp(older, "builds", JStr("none")))}

\* data.json as found: one of these values as JSON text.
InitStored ==
  /\ \E v \in StoredValues : store = Text(JSONStringify(v))
  /\ clock = 2
  /\ left = MaxRunsLong
  /\ budget = MaxElapsed
  /\ log = LET r == ReadAndValidate(store, NoFault)
           IN IF r.ok THEN r.data.checks ELSE <<>>
  /\ InitProcs

\* data.json as found, as InitStored, or cut short or empty; then as many
\* runs as in Init, the clock standing still.
InitRerun ==
  /\ store \in {Text(JSONStringify(v)) : v \in StoredValues} \cup {Partial, Text(<<>>)}
  /\ clock = 2
  /\ left = MaxRuns
  /\ budget = MaxElapsedBrief
  /\ log = LET r == ReadAndValidate(store, NoFault)
           IN IF r.ok THEN r.data.checks ELSE <<>>
  /\ InitProcs

\* process.exit() with the code left out.
Exit_DefaultCode(p, code) ==
  /\ pc' = [pc EXCEPT ![p] = "exited"]
  /\ exitCode' = [exitCode EXCEPT ![p] = 0]

\* process.exit(code), or main returning (code 0).
Exit(p, code) ==
  /\ pc' = [pc EXCEPT ![p] = "exited"]
  /\ exitCode' = [exitCode EXCEPT ![p] = code]

\* ----------------------------------------------------------------- actions
\* main, lines 70-72: startTime, then readData returns a document.
StartRun(p) ==
  /\ ~Running(p)
  /\ left > 0
  /\ \E d \in Ticks, fault \in {NoFault} \cup ReadFaults :
       LET now == clock + d
           r == readData(store, fault, now)
       IN /\ r.ok
          /\ Advance(d)
          /\ left' = left - 1
          /\ pc' = [pc EXCEPT ![p] = "fetch"]
          /\ startTime' = [startTime EXCEPT ![p] = now]
          /\ data' = [data EXCEPT ![p] = r.data]
          /\ before' = [before EXCEPT ![p] = store]
          /\ loaded' = [loaded EXCEPT ![p] = r.data]
          /\ res' = [res EXCEPT ![p] = NoResponse]
          /\ check' = [check EXCEPT ![p] = NoCheck]
          /\ exitPlan' = [exitPlan EXCEPT ![p] = 0]
          /\ error' = [error EXCEPT ![p] = ""]
          /\ exitCode' = [exitCode EXCEPT ![p] = -1]
          /\ ioFault' = [ioFault EXCEPT ![p] = fault # NoFault]
          /\ swallowed' = [swallowed EXCEPT ![p] = FALSE]
          /\ loads' = [loads EXCEPT ![p] = 1]
          /\ saves' = [saves EXCEPT ![p] = 0]
          /\ seen' = [seen EXCEPT ![p] = store]
          /\ recorded' = [recorded EXCEPT ![p] = <<>>]
          /\ UNCHANGED <<store, log, saver>>

\* main, lines 70-72: readData throws, because the content is not a
\* document or because readFile failed with something other than ENOENT;
\* main rejects and the handler of line 176 runs.
StartRunReadFails(p) ==
  /\ ~Running(p)
  /\ left > 0
  /\ \E d \in Ticks, fault \in {NoFault} \cup ReadFaults :
       LET now == clock + d
           r == readData(store, fault, now)
       IN /\ ~r.ok
          /\ Advance(d)
          /\ left' = left - 1
          /\ pc' = [pc EXCEPT ![p] = "catch"]
          /\ startTime' = [startTime EXCEPT ![p] = now]
          /\ data' = [data EXCEPT ![p] = NoData]
          /\ before' = [before EXCEPT ![p] = store]
          /\ loaded' = [loaded EXCEPT ![p] = NoData]
          /\ res' = [res EXCEPT ![p] = NoResponse]
          /\ check' = [check EXCEPT ![p] = NoCheck]
          /\ exitPlan' = [exitPlan EXCEPT ![p] = 0]
          /\ error' = [error EXCEPT ![p] = r.error]
          /\ exitCode' = [exitCode EXCEPT ![p] = -1]
          /\ ioFault' = [ioFault EXCEPT ![p] = TRUE]
          /\ swallowed' = [swallowed EXCEPT ![p] = FALSE]
          /\ loads' = [loads EXCEPT ![p] = 1]
          /\ saves' = [saves EXCEPT ![p] = 0]
          /\ seen' = [seen EXCEPT ![p] = store]
          /\ recorded' = [recorded EXCEPT ![p] = <<>>]
          /\ UNCHANGED <<store, log, saver>>

\* FetchThrows with process.exit(1) reached before writeData has run.
FetchThrows_ExitsUnsaved(p) ==
  /\ pc[p] = "fetch"
  /\ \E d \in Ticks :
       LET now == clock + d
           c == createCheck("network_error", [errorMessage |-> "fetch failed"],
                            startTime[p], now)
       IN /\ Advance(d)
          /\ check' = [check EXCEPT ![p] = c]
          /\ data' = [data EXCEPT ![p] = addCheckToData(data[p], c)]
          /\ exitPlan' = [exitPlan EXCEPT ![p] = 1]
          /\ pc' = [pc EXCEPT ![p] = "exited"]
          /\ exitCode' = [exitCode EXCEPT ![p] = 1]
  /\ UNCHANGED <<store, left, log, startTime, res, error, before, loaded,
                 ioFault, swallowed, loads, saves, saver, seen, recorded>>

\* main, lines 84-95: fetch rejects; the network_error check is added and
\* main goes on to writeData.
FetchThrows(p) ==
  /\ pc[p] = "fetch"
  /\ \E d \in Ticks :
       LET now == clock + d
           c == createCheck("network_error", [errorMessage |-> "fetch failed"],
                            startTime[p], now)
       IN /\ Advance(d)
          /\ check' = [check EXCEPT ![p] = c]
          /\ data' = [data EXCEPT ![p] = addCheckToData(data[p], c)]
          /\ exitPlan' = [exitPlan EXCEPT ![p] = 1]
          /\ pc' = [pc EXCEPT ![p] = "write"]
  /\ UNCHANGED <<store, left, log, startTime, res, error, exitCode, before, loaded,
                 ioFault, swallowed, loads, saves, saver, seen, recorded>>

\* FetchHttpError without the test of line 97: main reads the body of any
\* response.
FetchHttpError_ReadsBody(p) ==
  /\ pc[p] = "fetch"
  /\ \E r \in Responses :
       /\ ~ResOk(r)
       /\ res' = [res EXCEPT ![p] = r]
       /\ pc' = [pc EXCEPT ![p] = "text"]
  /\ UNCHANGED <<store, clock, left, budget, log, startTime, data, check,
                 exitPlan, error, exitCode, before, loaded, ioFault, swallowed,
                 loads, saves, saver, seen, recorded>>

\* FetchHttpError with process.exit(1) reached without writeData.
FetchHttpError_ExitsUnsaved(p) ==
  /\ pc[p] = "fetch"
  /\ \E d \in Ticks, r \in Responses :
       LET now == clock + d
           c == createCheck("http_error",
                  [httpStatus |-> r.status,
                   errorMessage |-> ToString(r.status) \o " " \o r.statusText],
                  startTime[p], now)
       IN /\ ~ResOk(r)
          /\ Advance(d)
          /\ res' = [res EXCEPT ![p] = r]
          /\ check' = [check EXCEPT ![p] = c]
          /\ data' = [data EXCEPT ![p] = addCheckToData(data[p], c)]
          /\ exitPlan' = [exitPlan EXCEPT ![p] = 1]
          /\ Exit(p, 1)
  /\ UNCHANGED <<store, left, log, startTime, error, before, loaded,
                 ioFault, swallowed, loads, saves, saver, seen, recorded>>

\* main, lines 86 and 97-108: fetch resolves with a status outside 200..299.
FetchHttpError(p) ==
  /\ pc[p] = "fetch"
  /\ \E d \in Ticks, r \in Responses :
       LET now == clock + d
           c == createCheck("http_error",
                  [httpStatus |-> r.status,
                   errorMessage |-> ToString(r.status) \o " " \o r.statusText],
                  startTime[p], now)
       IN /\ ~ResOk(r)
          /\ Advance(d)
          /\ res' = [res EXCEPT ![p] = r]
          /\ check' = [check EXCEPT ![p] = c]
          /\ data' = [data EXCEPT ![p] = addCheckToData(data[p], c)]
          /\ exitPlan' = [exitPlan EXCEPT ![p] = 1]
          /\ pc' = [pc EXCEPT ![p] = "write"]
  /\ UNCHANGED <<store, left, log, startTime, error, exitCode, before, loaded,
                 ioFault, swallowed, loads, saves, saver, seen, recorded>>

\* main, lines 86 and 97: fetch resolves with res.ok; main awaits
\* res.text().  The clock is not read here; the time the fetch took shows
\* at the next read.
FetchOk(p) ==
  /\ pc[p] = "fetch"
  /\ \E r \in Responses :
       /\ ResOk(r)
       /\ res' = [res EXCEPT ![p] = r]
       /\ pc' = [pc EXCEPT ![p] = "text"]
  /\ UNCHANGED <<store, clock, left, budget, log, startTime, data, check,
                 exitPlan, error, exitCode, before, loaded, ioFault, swallowed, loads, saves, saver, seen, recorded>>

\* main, line 110: res.text() rejects (the connection drops while the body
\* is read); main rejects.
TextThrows(p) ==
  /\ pc[p] = "text"
  /\ error' = [error EXCEPT ![p] = "terminated"]
  /\ ioFault' = [ioFault EXCEPT ![p] = TRUE]
  /\ pc' = [pc EXCEPT ![p] = "catch"]
  /\ UNCHANGED <<store, clock, left, budget, log, startTime, data, res, check,
                 exitPlan, exitCode, before, loaded, swallowed, loads, saves, saver, seen, recorded>>

\* main, lines 110-170, res.text() having resolved: extract, then one of
\* parse_error, missing_build_info, ok with the builds updated.
TextOk(p) ==
  /\ pc[p] = "text"
  /\ \E d1 \in Ticks, d2 \in Ticks :
       LET now == clock + d1
           checkedAt == now + d2
           r == MainAfterText(data[p], res[p], startTime[p], now, checkedAt)
       IN /\ ~r.threw
          /\ Advance(d1 + d2)
          /\ check' = [check EXCEPT ![p] = r.check]
          /\ data' = [data EXCEPT ![p] = r.data]
          /\ exitPlan' = [exitPlan EXCEPT ![p] = r.exit]
          /\ pc' = [pc EXCEPT ![p] = "write"]
  /\ UNCHANGED <<store, left, log, startTime, res, error, exitCode, before, loaded,
                 ioFault, swallowed, loads, saves, saver, seen, recorded>>

\* main, line 111: an exception leaves extractFoundryConfig; main rejects.
ExtractThrows(p) ==
  /\ pc[p] = "text"
  /\ LET r == MainAfterText(data[p], res[p], startTime[p], clock, clock)
     IN /\ r.threw
        /\ error' = [error EXCEPT ![p] = r.error]
  /\ pc' = [pc EXCEPT ![p] = "catch"]
  /\ UNCHANGED <<store, clock, left, budget, log, startTime, data, res, check,
                 exitPlan, exitCode, before, loaded, ioFault, swallowed, loads, saves, saver, seen, recorded>>

\* WriteOk adding the run's check to the document data.json holds at the
\* time of the write, when it holds one.
WriteOk_AddsToStored(p) ==
  /\ pc[p] = "write"
  /\ store' = IF store.kind = "json"
              THEN writeData(addCheckToData(store.doc, check[p]))
              ELSE writeData(data[p])
  /\ log' = <<check[p]>> \o log
  /\ saves' = [saves EXCEPT ![p] = @ + 1]
  /\ saver' = p
  /\ recorded' = [recorded EXCEPT ![p] = Append(@, check[p])]
  /\ Exit(p, exitPlan[p])
  /\ UNCHANGED <<clock, left, budget, startTime, data, res, check, exitPlan, error,
                 before, loaded, ioFault, swallowed, loads, seen>>

\* WriteOk without the process.exit(1) of line 94: after the write of a
\* network_error check main goes on to line 97 with res unassigned and
\* rejects.
WriteOk_FallsThrough(p) ==
  /\ pc[p] = "write"
  /\ store' = writeData(data[p])
  /\ log' = <<check[p]>> \o log
  /\ saves' = [saves EXCEPT ![p] = @ + 1]
  /\ saver' = p
  /\ recorded' = [recorded EXCEPT ![p] = Append(@, check[p])]
  /\ IF check[p].status = "network_error"
     THEN /\ pc' = [pc EXCEPT ![p] = "catch"]
          /\ error' = [error EXCEPT ![p] = "Cannot read properties of undefined (reading 'ok')"]
          /\ UNCHANGED exitCode
     ELSE /\ Exit(p, exitPlan[p])
          /\ UNCHANGED error
  /\ UNCHANGED <<clock, left, budget, startTime, data, res, check, exitPlan,
                 before, loaded, ioFault, swallowed, loads, seen>>

\* main, lines 92-94, 103-107, 123-125, 134-136, 171-174: writeData
\* returns, then process.exit(1) or main returns.
WriteOk(p) ==
  /\ pc[p] = "write"
  /\ store' = writeData(data[p])
  /\ log' = <<check[p]>> \o log
  /\ saves' = [saves EXCEPT ![p] = @ + 1]
  /\ saver' = p
  /\ recorded' = [recorded EXCEPT ![p] = Append(@, check[p])]
  /\ Exit(p, exitPlan[p])
  /\ UNCHANGED <<clock, left, budget, startTime, data, res, check, exitPlan, error,
                 before, loaded, ioFault, swallowed, loads, seen>>

\* The same lines, writeData throwing: main rejects.
WriteFails(p) ==
  /\ pc[p] = "write"
  /\ store' \in FailedWriteContents(store)
  /\ error' = [error EXCEPT ![p] = "EIO: i/o error, write"]
  /\ ioFault' = [ioFault EXCEPT ![p] = TRUE]
  /\ pc' = [pc EXCEPT ![p] = "catch"]
  /\ saves' = [saves EXCEPT ![p] = @ + 1]
  /\ UNCHANGED <<clock, left, budget, log, startTime, data, res, check, exitPlan,
                 exitCode, before, loaded, swallowed, loads, saver, seen, recorded>>

\* CatchReadOk adding the check to the document main holds in memory
\* whenever main got one, instead of the document read again.
CatchReadOk_KeepsMemory(p) ==
  /\ pc[p] = "catch"
  /\ \E d \in Ticks, fault \in {NoFault} \cup ReadFaults :
       LET now == clock + d
           r == readData(store, fault, now)
           c == UnknownErrorCheck(error[p], now)
       IN /\ r.ok
          /\ Advance(d)
          /\ check' = [check EXCEPT ![p] = c]
          /\ data' = [data EXCEPT ![p] =
                        addCheckToData(IF data[p] = NoData THEN r.data ELSE data[p], c)]
          /\ pc' = [pc EXCEPT ![p] = "catchWrite"]
  /\ loads' = [loads EXCEPT ![p] = @ + 1]
  /\ seen' = [seen EXCEPT ![p] = store]
  /\ UNCHANGED <<store, left, log, startTime, res, exitPlan, error, exitCode,
                 before, loaded, ioFault, swallowed, saves, saver, recorded>>

\* main().catch, lines 176-187: readData returns; the unknown_error check
\* is added to the document just read.
CatchReadOk(p) ==
  /\ pc[p] = "catch"
  /\ \E d \in Ticks, fault \in {NoFault} \cup ReadFaults :
       LET now == clock + d
           r == readData(store, fault, now)
           c == UnknownErrorCheck(error[p], now)
       IN /\ r.ok
          /\ Advance(d)
          /\ check' = [check EXCEPT ![p] = c]
          /\ data' = [data EXCEPT ![p] = addCheckToData(r.data, c)]
          /\ pc' = [pc EXCEPT ![p] = "catchWrite"]
  /\ loads' = [loads EXCEPT ![p] = @ + 1]
  /\ seen' = [seen EXCEPT ![p] = store]
  /\ UNCHANGED <<store, left, log, startTime, res, exitPlan, error, exitCode,
                 before, loaded, ioFault, swallowed, saves, saver, recorded>>

\* CatchReadFails with a catch block that starts data.json afresh, the
\* unknown_error check in an empty document.
CatchReadFails_StartsAfresh(p) ==
  /\ pc[p] = "catch"
  /\ \E fault \in {NoFault} \cup ReadFaults : ~readData(store, fault, clock).ok
  /\ LET c == UnknownErrorCheck(error[p], clock)
     IN /\ check' = [check EXCEPT ![p] = c]
        /\ data' = [data EXCEPT ![p] = addCheckToData(EmptyData(clock), c)]
        /\ store' = writeData(addCheckToData(EmptyData(clock), c))
        /\ log' = <<c>> \o log
        /\ recorded' = [recorded EXCEPT ![p] = Append(@, c)]
  /\ loads' = [loads EXCEPT ![p] = @ + 1]
  /\ saves' = [saves EXCEPT ![p] = @ + 1]
  /\ saver' = p
  /\ seen' = [seen EXCEPT ![p] = store]
  /\ Exit(p, 1)
  /\ UNCHANGED <<clock, left, budget, startTime, res, exitPlan, error, before,
                 loaded, ioFault, swallowed>>

\* main().catch, lines 180 and 189-193: readData throws; the catch block
\* ignores it and the process exits with 1.
CatchReadFails(p) ==
  /\ pc[p] = "catch"
  /\ \E fault \in {NoFault} \cup ReadFaults : ~readData(store, fault, clock).ok
  /\ swallowed' = [swallowed EXCEPT ![p] = TRUE]
  /\ ioFault' = [ioFault EXCEPT ![p] = TRUE]
  /\ loads' = [loads EXCEPT ![p] = @ + 1]
  /\ seen' = [seen EXCEPT ![p] = store]
  /\ Exit(p, 1)
  /\ UNCHANGED <<store, clock, left, budget, log, startTime, data, res, check,
                 exitPlan, error, before, loaded, saves, saver, recorded>>

\* main().catch, lines 188 and 193: writeData returns; exit with 1.
CatchWriteOk(p) ==
  /\ pc[p] = "catchWrite"
  /\ store' = writeData(data[p])
  /\ log' = <<check[p]>> \o log
  /\ saves' = [saves EXCEPT ![p] = @ + 1]
  /\ saver' = p
  /\ recorded' = [recorded EXCEPT ![p] = Append(@, check[p])]
  /\ Exit(p, 1)
  /\ UNCHANGED <<clock, left, budget, startTime, data, res, check, exitPlan, error,
                 before, loaded, ioFault, swallowed, loads, seen>>

\* main().catch, lines 188-193: writeData throws; ignored, exit with 1.
CatchWriteFails(p) ==
  /\ pc[p] = "catchWrite"
  /\ store' \in FailedWriteContents(store)
  /\ swallowed' = [swallowed EXCEPT ![p] = TRUE]
  /\ ioFault' = [ioFault EXCEPT ![p] = TRUE]
  /\ saves' = [saves EXCEPT ![p] = @ + 1]
  /\ Exit(p, 1)
  /\ UNCHANGED <<clock, left, budget, log, startTime, data, res, check, exitPlan,
                 error, before, loaded, loads, saver, seen, recorded>>

\* WriteFails, the write cut short anywhere.
WriteInterrupted(p) ==
  /\ pc[p] = "write"
  /\ store' \in InterruptedWriteContents(data[p])
  /\ error' = [error EXCEPT ![p] = "EIO: i/o error, write"]
  /\ ioFault' = [ioFault EXCEPT ![p] = TRUE]
  /\ pc' = [pc EXCEPT ![p] = "catch"]
  /\ saves' = [saves EXCEPT ![p] = @ + 1]
  /\ UNCHANGED <<clock, left, budget, log, startTime, data, res, check, exitPlan,
                 exitCode, before, loaded, swallowed, loads, saver, seen, recorded>>

\* CatchWriteFails, the write cut short anywhere.
CatchWriteInterrupted(p) ==
  /\ pc[p] = "catchWrite"
  /\ store' \in InterruptedWriteContents(data[p])
  /\ swallowed' = [swallowed EXCEPT ![p] = TRUE]
  /\ ioFault' = [ioFault EXCEPT ![p] = TRUE]
  /\ saves' = [saves EXCEPT ![p] = @ + 1]
  /\ Exit(p, 1)
  /\ UNCHANGED <<clock, left, budget, log, startTime, data, res, check, exitPlan,
                 error, before, loaded, loads, saver, seen, recorded>>

Step(p) ==
  \/ FetchThrows(p)
  \/ FetchHttpError(p)
  \/ FetchOk(p)
  \/ TextThrows(p)
  \/ TextOk(p)
  \/ ExtractThrows(p)
  \/ WriteOk(p)
  \/ WriteFails(p)
  \/ CatchReadOk(p)
  \/ CatchReadFails(p)
  \/ CatchWriteOk(p)
  \/ CatchWriteFails(p)

\* The scheduler starts a run only when no other run is in progress; the
\* runs of Spec are those of process 1.
Sequential == {1}

Next ==
  \E p \in Sequential :
    \/ StartRun(p)
    \/ StartRunReadFails(p)
    \/ Step(p)

Spec == Init /\ [][Next]_vars

\* The same runs, from a store that earlier runs have filled to the cap.
SpecLong == InitLong /\ [][Next]_vars

\* The same runs, from a data.json this version did not write.
SpecStored == InitStored /\ [][Next]_vars

\* The same, one run after another.
SpecRerun == InitRerun /\ [][Next]_vars

\* The runs of Spec, a failing write leaving any strict prefix of the text.
NextSave ==
  \E p \in Sequential :
    \/ StartRun(p)
    \/ StartRunReadFails(p)
    \/ Step(p)
    \/ WriteInterrupted(p)
    \/ CatchWriteInterrupted(p)

\* No data.json, or the data.json an interrupted write of the first run's
\* document has left.
InitSave ==
  /\ \/ /\ store = Absent
        /\ log = <<>>
     \/ /\ store \in InterruptedWriteContents(HistoryOfFailedRuns(1))
        /\ log = <<>>
  /\ clock = 1
  /\ left = MaxRunsLong
  /\ budget = MaxElapsedBrief
  /\ InitProcs

SpecSave == InitSave /\ [][NextSave]_vars

\* Without that scheduler: a run may start while another is in progress.
\* Nothing in main or readData/writeData locks data.json.
\* The two processes being alike, process 2 is the one started second.
NextConcurrent ==
  \E p \in Procs :
    \/ (p = 1 \/ pc[1] # "idle") /\ StartRun(p)
    \/ (p = 1 \/ pc[1] # "idle") /\ StartRunReadFails(p)
    \/ Step(p)

\* Two runs in all, from no data.json or from the one two runs have left.
InitConcurrent ==
  /\ \/ /\ store = Absent
        /\ clock = 0
        /\ log = <<>>
     \/ /\ store = Json(HistoryOfTwoBuilds)
        /\ clock = 2
        /\ log = HistoryOfTwoBuilds.checks
  /\ left = Cardinality(Procs)
  /\ budget = MaxElapsedBrief
  /\ InitProcs

SpecConcurrent == InitConcurrent /\ [][NextConcurrent]_vars

\* The runs of Spec, every await of a run in progress settling: fetch and
\* res.text() resolve or reject, readFile and writeFile return or throw.
\* Nothing makes the scheduler start a run.  Two runs, as in
\* InitConcurrent, one after the other.
SpecFair == InitConcurrent /\ [][Next]_vars /\ WF_vars(\E p \in Sequential : Step(p))

\* ================================================================== claims
Exited(p) == pc[p] = "exited"

\* slice(0, MAX_CHECKS)
Newest(checks) ==
  IF Len(checks) > MAX_CHECKS THEN SubSeq(checks, 1, MAX_CHECKS) ELSE checks

ChecksOf(content) == IF content.kind = "json" THEN content.doc.checks ELSE <<>>

\* data.json holds a document whose checks are the run's check followed by
\* the checks the file held when the run began.
RecordedCheck(p) ==
  /\ before[p].kind # "text"
  /\ check[p] # NoCheck
  /\ store.kind = "json"
  /\ store.doc.checks = Newest(<<check[p]>> \o ChecksOf(before[p]))

\* C1 as stated: every run that has exited, whatever its outcome and
\* whichever store operation failed, has added its check to data.json.
C1_EveryExitRecorded ==
  \A p \in Procs : Exited(p) => RecordedCheck(p)

\* C1 amended: every run that has exited has added its check to data.json,
\* unless the last-resort handler's own readData or writeData failed; then
\* the failure is ignored and the process exits with code 1.
C1_ExitRecordedUnlessHandlerFailed ==
  \A p \in Procs :
    Exited(p) =>
      /\ ~swallowed[p] => RecordedCheck(p)
      /\ swallowed[p] => exitCode[p] = 1

\* A run whose main write failed and whose handler recorded unknown_error.
C1_Witness ==
  \E p \in Procs :
    /\ Exited(p)
    /\ ioFault[p]
    /\ ~swallowed[p]
    /\ check[p].status = "unknown_error"
    /\ RecordedCheck(p)
    /\ Len(store.doc.checks) >= 2

BuildNumbers(builds) == [i \in 1..Len(builds) |-> builds[i].foundryEnv.buildNumber]

C3_ChecksBounded ==
  store.kind = "json" => Len(store.doc.checks) <= MAX_CHECKS

\* More than MAX_CHECKS checks have been recorded, the last one by the
\* unknown_error handler.
C3_Witness ==
  /\ Len(log) > MAX_CHECKS
  /\ store.kind = "json"
  /\ Len(store.doc.checks) = MAX_CHECKS
  /\ store.doc.checks[1].status = "unknown_error"

\* C4: once more than MAX_CHECKS runs have recorded a check, the persisted
\* checks are exactly the MAX_CHECKS most recent of them, newest first, and
\* the older ones are gone.  log is the sequence of all checks recorded.
C4_NewestRunsKept ==
  (store.kind = "json" /\ Len(log) > MAX_CHECKS) =>
    /\ Len(store.doc.checks) = MAX_CHECKS
    /\ store.doc.checks[1] = log[1]
    /\ \A i \in 1..MAX_CHECKS : store.doc.checks[i] = log[i]
    /\ \A k \in (MAX_CHECKS + 1)..Len(log) :
         \A i \in 1..MAX_CHECKS : store.doc.checks[i] # log[k]
    /\ \A p \in Procs :
         (Exited(p) /\ ~swallowed[p]) => store.doc.checks[1] = check[p]

\* Three checks have been dropped, and the run just ended recorded its own.
C4_Witness ==
  /\ store.kind = "json"
  /\ Len(log) = MAX_CHECKS + 3
  /\ \E p \in Procs : Exited(p) /\ RecordedCheck(p) /\ check[p].status = "ok"

\* What the script block of a page holds, for stating the claims' cases.
BlockDecodes(page) == page.marker /\ DecodeURIComponent(page.content).ok
BlockParses(page) ==
  /\ BlockDecodes(page)
  /\ JSONParse(DecodeURIComponent(page.content).text).ok
BlockConfig(page) == JSONParse(DecodeURIComponent(page.content).text).val
ObservedBuildNumber(page) ==
  IF BlockParses(page)
  THEN GetProp(GetProp(BlockConfig(page), "environment"), "buildNumber")
  ELSE Undefined

\* The run got a response with a success status and all its file
\* operations and res.text() succeeded.
CleanRunWithPage(p) ==
  /\ Exited(p)
  /\ ~ioFault[p]
  /\ res[p] # NoResponse
  /\ ResOk(res[p])

FailedWith(p, status) ==
  /\ RecordedCheck(p)
  /\ check[p].status = status
  /\ exitCode[p] # 0

\* C5 as stated: a transport failure, a non-success status, an absent or
\* unparseable config block, or a config without build identifier makes the
\* run add exactly one check, of status network_error, http_error,
\* parse_error or missing_build_info respectively, and exit with a failure
\* code (the store operations of the run succeeding).
C5_AnticipatedFailuresRecorded ==
  \A p \in Procs :
    (Exited(p) /\ ~ioFault[p]) =>
      /\ res[p] = NoResponse => FailedWith(p, "network_error")
      /\ (res[p] # NoResponse /\ ~ResOk(res[p])) => FailedWith(p, "http_error")
      /\ (res[p] # NoResponse /\ ResOk(res[p]) /\ ~BlockParses(res[p].body))
           => FailedWith(p, "parse_error")
      /\ (/\ res[p] # NoResponse
          /\ ResOk(res[p])
          /\ BlockParses(res[p].body)
          /\ BlockConfig(res[p].body).t = "obj"
          /\ ~Truthy(ObservedBuildNumber(res[p].body)))
           => FailedWith(p, "missing_build_info")

\* C6 as stated: a page whose marker block is not percent-decodable or not
\* JSON makes the run record parse_error.
C6_MalformedBlockIsParseError ==
  \A p \in Procs :
    (CleanRunWithPage(p) /\ res[p].body.marker /\ ~BlockParses(res[p].body))
      => (RecordedCheck(p) /\ check[p].status = "parse_error")

Known(builds, buildNumber) ==
  \E i \in 1..Len(builds) : builds[i].foundryEnv.buildNumber = buildNumber

\* C7: a run that observes a buildNumber already in builds changes only
\* that record's lastSeenAt, to a time of this run; its firstSeenAt,
\* foundryEnv and rawConfig, the other records and the length of builds are
\* as loaded, and the check recorded has isNewBuild = FALSE.
C7_ReobservedBuildOnlyTouched ==
  \A p \in Procs :
    (/\ CleanRunWithPage(p)
     /\ Truthy(ObservedBuildNumber(res[p].body))
     /\ Known(loaded[p].builds, ObservedBuildNumber(res[p].body)))
    =>
    /\ store.kind = "json"
    /\ Len(store.doc.builds) = Len(loaded[p].builds)
    /\ \A i \in 1..Len(loaded[p].builds) :
         LET old == loaded[p].builds[i]
             new == store.doc.builds[i]
         IN IF old.foundryEnv.buildNumber = ObservedBuildNumber(res[p].body)
            THEN /\ new = [old EXCEPT !.lastSeenAt = new.lastSeenAt]
                 /\ new.lastSeenAt >= startTime[p]
                 /\ new.lastSeenAt <= check[p].checkedAt
            ELSE new = old
    /\ RecordedCheck(p)
    /\ check[p].status = "ok"
    /\ check[p].isNewBuild = FALSE

\* A build seen again, later and with a payload other than the stored one,
\* another build being stored too.
C7_Witness ==
  \E p \in Procs :
    /\ CleanRunWithPage(p)
    /\ Truthy(ObservedBuildNumber(res[p].body))
    /\ Len(loaded[p].builds) >= 2
    /\ store.kind = "json"
    /\ \E i \in 1..Len(loaded[p].builds) :
         /\ loaded[p].builds[i].foundryEnv.buildNumber = ObservedBuildNumber(res[p].body)
         /\ loaded[p].builds[i].rawConfig # BlockConfig(res[p].body)
         /\ store.doc.builds[i].lastSeenAt > loaded[p].builds[i].lastSeenAt

\* C8: a run that observes a buildNumber not in builds puts the new record
\* at builds[0], followed by the loaded records unchanged and in order, and
\* the check recorded has isNewBuild = TRUE.
C8_NewBuildPrepended ==
  \A p \in Procs :
    (/\ CleanRunWithPage(p)
     /\ Truthy(ObservedBuildNumber(res[p].body))
     /\ ~Known(loaded[p].builds, ObservedBuildNumber(res[p].body)))
    =>
    /\ store.kind = "json"
    /\ Len(store.doc.builds) = Len(loaded[p].builds) + 1
    /\ store.doc.builds[1].foundryEnv.buildNumber = ObservedBuildNumber(res[p].body)
    /\ \A i \in 1..Len(loaded[p].builds) : store.doc.builds[i + 1] = loaded[p].builds[i]
    /\ RecordedCheck(p)
    /\ check[p].status = "ok"
    /\ check[p].isNewBuild = TRUE

\* A third build found, two being stored.
C8_Witness ==
  \E p \in Procs :
    /\ CleanRunWithPage(p)
    /\ Truthy(ObservedBuildNumber(res[p].body))
    /\ ~Known(loaded[p].builds, ObservedBuildNumber(res[p].body))
    /\ Len(loaded[p].builds) = 2
    /\ store.kind = "json"
    /\ Len(store.doc.builds) = 3

\* C9: every persisted build record has firstSeenAt <= lastSeenAt.
C9_FirstSeenNotAfterLastSeen ==
  store.kind = "json" =>
    \A i \in 1..Len(store.doc.builds) :
      store.doc.builds[i].firstSeenAt <= store.doc.builds[i].lastSeenAt

\* A build that was seen again at a later time.
C9_Witness ==
  /\ store.kind = "json"
  /\ \E i \in 1..Len(store.doc.builds) :
       store.doc.builds[i].firstSeenAt < store.doc.builds[i].lastSeenAt

\* C10 as stated: a run exits with 0 exactly when its check has status ok,
\* with a non-zero code otherwise, and it exits only once its check is in
\* data.json.
C10_ExitCodeAfterRecordedCheck ==
  \A p \in Procs :
    Exited(p) =>
      /\ exitCode[p] = 0 <=> check[p].status = "ok"
      /\ RecordedCheck(p)

\* C10 amended: a run exits with 0 exactly when the check it recorded has
\* status ok and with a non-zero code otherwise; it exits only once its
\* check is in data.json, unless the last-resort handler's own readData or
\* writeData failed, and then it exits with a non-zero code.
C10_ExitCodeMatchesRecordedCheck ==
  \A p \in Procs :
    Exited(p) =>
      /\ exitCode[p] \in {0, 1}
      /\ exitCode[p] = 0 <=> (RecordedCheck(p) /\ check[p].status = "ok")
      /\ ~swallowed[p] => RecordedCheck(p)
      /\ swallowed[p] => exitCode[p] # 0

\* After a run that exited with 0, a run whose ok check could not be
\* written, the handler recording unknown_error and exiting with 1.
C10_Witness ==
  \E p \in Procs :
    /\ Exited(p)
    /\ exitCode[p] = 1
    /\ exitPlan[p] = 0
    /\ check[p].status = "unknown_error"
    /\ RecordedCheck(p)
    /\ Len(log) >= 2
    /\ log[2].status = "ok"

\* An exception has left main: main rejected with error[p].
Escaped(p) == error[p] # ""

\* C11: once an exception has left main the handler runs: it calls readData
\* again and what it then holds for writing is the content of data.json,
\* not main's document, with one unknown_error check carrying the
\* exception's message added; the process exits with code 1 whether the
\* handler's readData and writeData succeeded (data.json then holds that
\* document) or threw (the failure is ignored).
C11_HandlerReloadsAndRecords ==
  \A p \in Procs :
    /\ Escaped(p) <=> (pc[p] \in {"catch", "catchWrite"} \/ (Exited(p) /\ loads[p] = 2))
    /\ pc[p] = "catchWrite" =>
         LET reread == readData(store, NoFault, check[p].checkedAt) IN
         /\ reread.ok
         /\ check[p] = UnknownErrorCheck(error[p], check[p].checkedAt)
         /\ data[p] = addCheckToData(reread.data, check[p])
    /\ (Exited(p) /\ Escaped(p)) =>
         /\ exitCode[p] = 1
         /\ ~swallowed[p] =>
              /\ store = Json(data[p])
              /\ store.doc.checks[1] = UnknownErrorCheck(error[p], check[p].checkedAt)
              /\ saves[p] >= 1

\* res.text() rejected; the handler read data.json again, with two builds
\* and two checks in it, and wrote it back with its check added.
C11_Witness ==
  \E p \in Procs :
    /\ Exited(p)
    /\ error[p] = "terminated"
    /\ ~swallowed[p]
    /\ exitCode[p] = 1
    /\ loads[p] = 2
    /\ saves[p] = 1
    /\ store = Json(data[p])
    /\ Len(store.doc.builds) = 2
    /\ Len(store.doc.checks) = 3
    /\ store.doc.checks[1].errorMessage = "terminated"

\* The page's block holds a config object without a usable buildNumber.
NoBuildInfo(page) ==
  /\ BlockParses(page)
  /\ BlockConfig(page).t = "obj"
  /\ \/ GetProp(BlockConfig(page), "environment") = Undefined
     \/ ObservedBuildNumber(page) = Undefined
     \/ ObservedBuildNumber(page) = JStr("")

\* C12: a run whose config has no environment, no buildNumber or the empty
\* string as buildNumber records missing_build_info and exits with 1, and
\* the document it writes has the builds it loaded; apart from checks and
\* lastUpdatedAt it is the loaded document.
C12_MissingBuildInfoKeepsBuilds ==
  \A p \in Procs :
    (CleanRunWithPage(p) /\ NoBuildInfo(res[p].body)) =>
      /\ RecordedCheck(p)
      /\ check[p].status = "missing_build_info"
      /\ exitCode[p] = 1
      /\ store.doc.builds = loaded[p].builds
      /\ DOMAIN store.doc = DOMAIN loaded[p]
      /\ \A k \in DOMAIN store.doc \ {"checks", "lastUpdatedAt"} :
           store.doc[k] = loaded[p][k]
      /\ store.doc.lastUpdatedAt = check[p].checkedAt

\* The empty string as buildNumber, two builds being stored.
C12_Witness ==
  \E p \in Procs :
    /\ CleanRunWithPage(p)
    /\ res[p].body = PageEmptyBuildNumber
    /\ Len(loaded[p].builds) = 2
    /\ store.kind = "json"
    /\ store.doc.builds = loaded[p].builds
    /\ store.doc.checks[1].status = "missing_build_info"

\* The run's first readData ran into an I/O error of readFile.
EaccesMessage == "EACCES: permission denied, open './data.json'"
LoadFaulted(p) == loaded[p] = NoData /\ error[p] = EaccesMessage

\* C13: a run that finds no data.json gets from readData, without an
\* error, the document of no builds and no checks whose lastUpdatedAt is
\* the time of the load; a readFile failing with another code gives no
\* document at all: the error leaves readData and main.
C13_MissingFileIsEmptyDocument ==
  \A p \in Procs :
    pc[p] # "idle" =>
      /\ (before[p] = Absent /\ loaded[p] # NoData) =>
           /\ loaded[p] = [lastUpdatedAt |-> startTime[p], builds |-> <<>>, checks |-> <<>>]
           /\ pc[p] = "fetch" => error[p] = ""
      /\ (before[p] = Absent /\ loaded[p] = NoData) => error[p] = EaccesMessage
      /\ pc[p] = "fetch" => (~ioFault[p] /\ loaded[p] # NoData)
      /\ loaded[p] = NoData => Escaped(p)

\* No data.json, the clock having advanced: the run has its empty document.
C13_Witness ==
  \E p \in Procs :
    /\ pc[p] = "fetch"
    /\ before[p] = Absent
    /\ store = Absent
    /\ startTime[p] > 0
    /\ loaded[p] = EmptyData(startTime[p])
    /\ error[p] = ""

\* What data.json held when the run began, parsed.
StoredText(p) == before[p].kind = "text" /\ JSONParse(before[p].text).ok
StoredValue(p) == JSONParse(before[p].text).val
HasArrayBuilds(v) == v.t = "obj" /\ "builds" \in DOMAIN v.o /\ v.o.builds.t = "arr"
HasArrayChecks(v) == v.t = "obj" /\ "checks" \in DOMAIN v.o /\ v.o.checks.t = "arr"

\* C14: readData of a stored object whose builds is an array and whose
\* checks is missing or not an array returns a document with checks empty
\* and with builds and lastUpdatedAt as stored (readFile not failing).
C14_MissingChecksLoadsEmpty ==
  \A p \in Procs :
    (/\ pc[p] # "idle"
     /\ StoredText(p)
     /\ HasArrayBuilds(StoredValue(p))
     /\ ~HasArrayChecks(StoredValue(p))
     /\ ~LoadFaulted(p))
    =>
    /\ loaded[p] # NoData
    /\ DOMAIN loaded[p] = {"lastUpdatedAt", "builds", "checks"}
    /\ loaded[p].checks = <<>>
    /\ DataToJson(loaded[p]).o.builds = StoredValue(p).o.builds
    /\ DataToJson(loaded[p]).o.lastUpdatedAt = StoredValue(p).o.lastUpdatedAt
    /\ pc[p] = "fetch" => error[p] = ""

\* A document with checks null was loaded; the run found a third build and
\* wrote the document with its check as the only one.
C14_Witness ==
  \E p \in Procs :
    /\ Exited(p)
    /\ StoredText(p)
    /\ HasArrayBuilds(StoredValue(p))
    /\ GetProp(StoredValue(p), "checks") = JNull
    /\ loaded[p] # NoData
    /\ Len(loaded[p].builds) = 2
    /\ loaded[p].checks = <<>>
    /\ store.kind = "json"
    /\ Len(store.doc.builds) = 3
    /\ Len(store.doc.checks) = 1

\* C15: when data.json parses to something other than an object with an
\* array builds, readData throws and main gets no document; the run ends
\* with data.json as it was, never with an empty document in its place.
C15_CorruptStoreFailsLoad ==
  \A p \in Procs :
    (pc[p] # "idle" /\ StoredText(p) /\ ~HasArrayBuilds(StoredValue(p))) =>
      /\ loaded[p] = NoData
      /\ data[p] = NoData
      /\ Escaped(p)
      /\ ~LoadFaulted(p) => error[p] = "invalid data structure in data.json"
      /\ pc[p] \in {"catch", "exited"}
      /\ store = before[p]
      /\ Exited(p) => (swallowed[p] /\ exitCode[p] = 1)

\* A run on a data.json holding an object whose builds is null has ended.
C15_Witness ==
  \E p \in Procs :
    /\ Exited(p)
    /\ StoredText(p)
    /\ StoredValue(p).t = "obj"
    /\ GetProp(StoredValue(p), "builds") = JNull
    /\ HasArrayChecks(StoredValue(p)) = FALSE
    /\ error[p] = "invalid data structure in data.json"
    /\ store = before[p]

\* {"environment":{"buildNumber":"B-1","region":"eastus2"}}
ConfigB1East ==
  JObj([environment |-> JObj([buildNumber |-> JStr("B-1"), region |-> JStr("eastus2")])])

\* C16: with no data.json, a run that gets 200 and the page whose block
\* decodes to ConfigB1East, its file operations succeeding, leaves a
\* document with exactly one build, B-1, first and last seen at one time
\* of the run, foundryEnv {region: eastus2, buildNumber: B-1}, rawConfig
\* the config, and exactly one check, ok, isNewBuild, buildNumber B-1;
\* it exits with 0.
C16_FirstBuildEndToEnd ==
  \A p \in Procs :
    (/\ CleanRunWithPage(p)
     /\ before[p] = Absent
     /\ res[p].status = 200
     /\ res[p].body = PageB1East)
    =>
    /\ BlockConfig(res[p].body) = ConfigB1East
    /\ store.kind = "json"
    /\ DOMAIN store.doc = {"lastUpdatedAt", "builds", "checks"}
    /\ Len(store.doc.builds) = 1
    /\ LET b == store.doc.builds[1] IN
         /\ DOMAIN b = {"firstSeenAt", "lastSeenAt", "foundryEnv", "rawConfig"}
         /\ b.foundryEnv = [region |-> JStr("eastus2"), buildNumber |-> JStr("B-1")]
         /\ b.rawConfig = ConfigB1East
         /\ b.firstSeenAt = b.lastSeenAt
         /\ b.firstSeenAt >= startTime[p]
         /\ b.firstSeenAt <= store.doc.checks[1].checkedAt
    /\ Len(store.doc.checks) = 1
    /\ LET c == store.doc.checks[1] IN
         /\ DOMAIN c = {"checkedAt", "status", "durationMs", "httpStatus",
                        "buildNumber", "isNewBuild"}
         /\ c.status = "ok"
         /\ c.isNewBuild = TRUE
         /\ c.buildNumber = "B-1"
         /\ c.httpStatus = 200
         /\ c.checkedAt <= clock
    /\ store.doc.lastUpdatedAt = store.doc.checks[1].checkedAt
    /\ exitCode[p] = 0

\* Such a run has ended, the clock having advanced while it ran.
C16_Witness ==
  \E p \in Procs :
    /\ CleanRunWithPage(p)
    /\ before[p] = Absent
    /\ res[p].status = 200
    /\ res[p].body = PageB1East
    /\ store.kind = "json"
    /\ store.doc.builds[1].firstSeenAt > 0
    /\ store.doc.checks[1].durationMs > 0

\* main has called extractFoundryConfig on the body of its response.
Extracted(p) ==
  /\ res[p] # NoResponse
  /\ ResOk(res[p])
  /\ pc[p] = "write" \/ (Escaped(p) /\ check[p] = NoCheck /\ error[p] = "URI malformed")

\* C17 as stated: what extractFoundryConfig gives for a page whose block
\* is there but does not decode or parse is never what it gives for a page
\* without the block.
C17_AbsentAndMalformedDistinct ==
  \A p \in Procs :
    (Extracted(p) /\ res[p].body.marker /\ ~BlockParses(res[p].body)) =>
      extractFoundryConfig(res[p].body) # extractFoundryConfig(NoMarkerPage)

\* Both runs have ended, each with its last writeData completed, and each
\* did its last readData before either of these writes: both read the
\* same content.  q is the one that wrote last.
Overlapped(p, q) ==
  /\ p # q
  /\ Exited(p) /\ Exited(q)
  /\ ~swallowed[p] /\ ~swallowed[q]
  /\ seen[p] = seen[q]
  /\ seen[q].kind # "text"
  /\ saver = q

\* C18: when two runs overlap, data.json afterwards is the document of the
\* run that wrote last: the checks both read with that run's check put
\* first, one check more than was read, so the other run's check is not in
\* it; and every build in it is a build as read or the build the last
\* writer observed, so a build only the other run found and a lastSeenAt
\* only the other run set are not in it.
C18_LastWriterWins ==
  \A p, q \in Procs :
    Overlapped(p, q) =>
      LET read == readData(seen[q], NoFault, 0).data IN
      /\ store = Json(data[q])
      /\ store.doc.checks = <<check[q]>> \o read.checks
      /\ Len(store.doc.checks) = Len(read.checks) + 1
      /\ \A i \in 1..Len(store.doc.builds) :
           LET b == store.doc.builds[i] IN
           \/ \E j \in 1..Len(read.builds) : read.builds[j] = b
           \/ /\ check[q].status = "ok"
              /\ b.foundryEnv.buildNumber = JStr(check[q].buildNumber)

\* Both runs read the document of two builds; the run that wrote first had
\* found a third build, the other had seen a stored build again; the third
\* build and the first run's check are not in data.json.
C18_Witness ==
  \E p, q \in Procs :
    /\ Overlapped(p, q)
    /\ loads[p] = 1 /\ loads[q] = 1
    /\ check[p].status = "ok" /\ check[p].isNewBuild
    /\ check[q].status = "ok" /\ ~check[q].isNewBuild
    /\ Len(store.doc.builds) = 2
    /\ ~Known(store.doc.builds, JStr(check[p].buildNumber))
    /\ \A i \in 1..Len(store.doc.checks) : store.doc.checks[i] # check[p]

\* C19: a readData that finds in data.json a strict prefix of a document's
\* text gives no document: it throws.  When it is main's, main rejects
\* without a document; when it is the handler's, the handler gives up and
\* nothing is written over the prefix.
C19_PrefixNeverLoads ==
  \A p \in Procs :
    (pc[p] # "idle" /\ seen[p].kind = "text") =>
      /\ ~readData(seen[p], NoFault, clock).ok
      /\ loads[p] = 1 => (loaded[p] = NoData /\ data[p] = NoData /\ Escaped(p))
      /\ loads[p] = 2 => (swallowed[p] /\ Exited(p) /\ store = seen[p])
      /\ pc[p] \in {"catch", "exited"}

\* The handler found the text of main's document, build and check in it,
\* with only its last lexeme missing.
C19_Witness ==
  \E p \in Procs :
    /\ Exited(p)
    /\ loads[p] = 2
    /\ seen[p].kind = "text"
    /\ data[p] # NoData
    /\ Len(data[p].builds) = 1
    /\ seen[p].text \o <<"}">> = JSONStringify(DataToJson(data[p]))
    /\ readData(Text(seen[p].text \o <<"}">>), NoFault, clock) = [ok |-> TRUE, data |-> data[p]]

\* The run's document has its check, and on the ok path the observed build.
Reconciled(p) ==
  /\ check[p] # NoCheck
  /\ data[p].checks[1] = check[p]
  /\ check[p].status = "ok" =>
       Known(data[p].builds, ObservedBuildNumber(res[p].body))

\* C20 as stated: a run calls readData once, before the fetch and the
\* reconciliation, and writeData once, after them, and never more.
C20_OneLoadOneSave ==
  \A p \in Procs :
    /\ pc[p] # "idle" => (loads[p] = 1 /\ saves[p] <= 1)
    /\ pc[p] = "fetch" => (res[p] = NoResponse /\ check[p] = NoCheck /\ saves[p] = 0)
    /\ pc[p] = "text" => (check[p] = NoCheck /\ saves[p] = 0)
    /\ pc[p] = "write" => (Reconciled(p) /\ saves[p] = 0)
    /\ Exited(p) => saves[p] = 1

\* C20 amended: main calls readData once, before the fetch and the
\* reconciliation, and writeData at most once, after them; a run that ends
\* with no exception having left main has loaded once and saved once.
\* When an exception has left main the handler calls readData a second
\* time and, if that succeeds, writeData once: such a run ends having
\* loaded twice and having called writeData at most twice, the first of
\* two calls being main's, which threw.
C20_OneLoadOneSaveUnlessEscaped ==
  \A p \in Procs :
    /\ pc[p] # "idle" => loads[p] >= 1
    /\ pc[p] = "fetch" => (res[p] = NoResponse /\ check[p] = NoCheck)
    /\ pc[p] = "text" => check[p] = NoCheck
    /\ pc[p] \in {"fetch", "text"} => (loads[p] = 1 /\ saves[p] = 0 /\ ~Escaped(p))
    /\ pc[p] = "write" => (Reconciled(p) /\ loads[p] = 1 /\ saves[p] = 0 /\ ~Escaped(p))
    /\ (Exited(p) /\ ~Escaped(p)) =>
         (Reconciled(p) /\ loads[p] = 1 /\ saves[p] = 1 /\ store = Json(data[p]))
    /\ pc[p] = "catch" => (Escaped(p) /\ loads[p] = 1 /\ saves[p] <= 1)
    /\ pc[p] = "catchWrite" => (Escaped(p) /\ loads[p] = 2 /\ saves[p] <= 1)
    /\ (Exited(p) /\ Escaped(p)) =>
         /\ loads[p] = 2
         /\ saves[p] <= 2
         /\ saves[p] = 0 => swallowed[p]
    /\ (Escaped(p) /\ pc[p] = "catch" /\ saves[p] = 1) => error[p] = "EIO: i/o error, write"
    /\ saves[p] = 2 => (Exited(p) /\ error[p] = "EIO: i/o error, write")

\* main's writeData of an ok run threw; the handler loaded again and its
\* writeData completed: two loads, two calls of writeData.
C20_Witness ==
  \E p \in Procs :
    /\ Exited(p)
    /\ Escaped(p)
    /\ exitPlan[p] = 0
    /\ loads[p] = 2
    /\ saves[p] = 2
    /\ ~swallowed[p]
    /\ store = Json(data[p])

\* The builds of the document data.json holds, none when it holds no document.
BuildsOf(content) == IF content.kind = "json" THEN content.doc.builds ELSE <<>>

\* Every record of old is in new under its buildNumber with its
\* firstSeenAt, and the records of old come in new in the order they have
\* in old.
Preserved(old, new) ==
  LET Pos(i) == findIndex(new, old[i].foundryEnv.buildNumber) IN
  /\ \A i \in 1..Len(old) :
       /\ Pos(i) # -1
       /\ new[Pos(i)].firstSeenAt = old[i].firstSeenAt
  /\ \A i, j \in 1..Len(old) : i < j => Pos(i) < Pos(j)

\* C21 as stated: whatever a run does to data.json, every build record it
\* held is still in builds, in the same order, with the same firstSeenAt.
C21_BuildsNeverRemoved ==
  [][Preserved(BuildsOf(store), BuildsOf(store'))]_vars

\* C21 amended: from one document data.json holds to the next, every build
\* record is still in builds, in the same order, with the same
\* firstSeenAt; a writeData cut short leaves no document, and the records
\* go with it (no later sequential run brings a document back).
C21_BuildsKeptWhileDocument ==
  [][/\ (store.kind = "json" /\ store'.kind = "json") =>
          Preserved(BuildsOf(store), BuildsOf(store'))
     /\ store.kind = "text" => store' = store
     /\ (store.kind = "json" /\ store'.kind # "json") =>
          \E p \in Procs : pc[p] \in {"write", "catchWrite"} /\ ioFault'[p]]_vars

\* A run that found B-1 again has written the document: B-2 and B-1 of
\* the document it loaded are there, in that order, B-1 seen later.
C21_Witness ==
  \E p \in Procs :
    /\ Exited(p)
    /\ before[p].kind = "json"
    /\ Len(before[p].doc.builds) = 2
    /\ check[p].status = "ok"
    /\ check[p].buildNumber = "B-1"
    /\ store = Json(data[p])
    /\ store.doc.builds[1] = before[p].doc.builds[1]
    /\ store.doc.builds[2].lastSeenAt > before[p].doc.builds[2].lastSeenAt

\* C22: the document a completed writeData has left in data.json has the
\* check of the run that wrote it at checks[0], and its lastUpdatedAt is
\* that check's checkedAt.
C22_LastUpdatedIsNewestCheck ==
  (store.kind = "json" /\ log # <<>>) =>
    /\ store.doc.checks # <<>>
    /\ store.doc.checks[1] = log[1]
    /\ store.doc.lastUpdatedAt = store.doc.checks[1].checkedAt
    /\ \A p \in Procs :
         (Exited(p) /\ saver = p /\ ~swallowed[p]) =>
           (store.doc.checks[1] = check[p] /\ store.doc.lastUpdatedAt = check[p].checkedAt)

\* An ok run has written its document; the clock went on between the
\* build's lastSeenAt and the check, and lastUpdatedAt is the check's time.
C22_Witness ==
  \E p \in Procs :
    /\ Exited(p)
    /\ saver = p
    /\ store = Json(data[p])
    /\ check[p].status = "ok"
    /\ store.doc.builds[1].lastSeenAt < check[p].checkedAt
    /\ store.doc.lastUpdatedAt = check[p].checkedAt

\* C23: the checks of the document in data.json are ordered newest first,
\* checks[i].checkedAt >= checks[j].checkedAt for i < j (the clock never
\* going back).
C23_ChecksNewestFirst ==
  store.kind = "json" =>
    \A i, j \in 1..Len(store.doc.checks) :
      i < j => store.doc.checks[i].checkedAt >= store.doc.checks[j].checkedAt

\* Two runs after the two of the history: an ok run, then a run whose
\* handler recorded unknown_error; four checks, the newest later than
\* the oldest.
C23_Witness ==
  /\ store.kind = "json"
  /\ Len(store.doc.checks) = 4
  /\ store.doc.checks[1].status = "unknown_error"
  /\ store.doc.checks[2].status = "ok"
  /\ store.doc.checks[1].checkedAt > store.doc.checks[3].checkedAt
  /\ store.doc.checks[3].checkedAt > store.doc.checks[4].checkedAt

\* The closed set of CheckStatus values but for the model's "none".
TerminalStatuses == {"ok", "network_error", "http_error", "parse_error",
                     "missing_build_info", "unknown_error"}

\* The status the way the run went calls for.
StatusOfPath(p, status) ==
  /\ status = "unknown_error" <=> Escaped(p)
  /\ status = "network_error" <=> (~Escaped(p) /\ res[p] = NoResponse)
  /\ status = "http_error" <=> (~Escaped(p) /\ res[p] # NoResponse /\ ~ResOk(res[p]))
  /\ status \in {"parse_error", "missing_build_info", "ok"} <=>
       (~Escaped(p) /\ res[p] # NoResponse /\ ResOk(res[p]))

\* A run has put at most one check into data.json, and only as its last
\* step; the check has one of the six statuses, the one its path calls
\* for; a run that has exited has put none only if the handler's own
\* readData or writeData threw.
OneTerminalState(p) ==
  /\ Len(recorded[p]) <= 1
  /\ recorded[p] # <<>> =>
       /\ Exited(p)
       /\ recorded[p][1] = check[p]
       /\ check[p].status \in TerminalStatuses
       /\ StatusOfPath(p, check[p].status)
  /\ Exited(p) => (recorded[p] = <<>> <=> swallowed[p])

\* C24: fetch, res.text() and the file operations settling, every run
\* that has started exits, and it has then put no more than one check
\* into data.json, of exactly one of the six statuses.
C24_RunEndsInOneTerminalState ==
  /\ [](\A p \in Procs : OneTerminalState(p))
  /\ \A p \in Procs : Running(p) ~> Exited(p)

\* main had made the parse_error check of a page without the block; its
\* writeData threw, and the handler's check is the one the run recorded.
C24_Witness ==
  \E p \in Procs :
    /\ Exited(p)
    /\ res[p] # NoResponse
    /\ res[p].body = NoMarkerPage
    /\ exitPlan[p] = 1
    /\ saves[p] = 2
    /\ Len(recorded[p]) = 1
    /\ recorded[p][1].status = "unknown_error"
    /\ store.kind = "json"
    /\ store.doc.checks[1] = recorded[p][1]

\* The response of the run has a status outside 200..299.
GotHttpError(p) == res[p] # NoResponse /\ ~ResOk(res[p])

\* C25: a response with a status outside 200..299 makes the run record
\* http_error with that status as httpStatus, and the body is not looked
\* at: builds in memory and in data.json are as loaded, whatever build
\* the body names.
C25_HttpErrorIgnoresBody ==
  \A p \in Procs :
    (pc[p] # "idle" /\ GotHttpError(p)) =>
      /\ data[p].builds = loaded[p].builds
      /\ ~Escaped(p) =>
           /\ pc[p] \in {"write", "exited"}
           /\ check[p].status = "http_error"
           /\ check[p].httpStatus = res[p].status
           /\ check[p].errorMessage = ToString(res[p].status) \o " " \o res[p].statusText
           /\ data[p].checks[1] = check[p]
           /\ exitPlan[p] = 1
      /\ (Exited(p) /\ ~Escaped(p)) =>
           /\ store = Json(data[p])
           /\ store.doc.builds = BuildsOf(before[p])
           /\ recorded[p] = <<check[p]>>
           /\ exitCode[p] = 1

\* From no data.json, a 404 whose body is the page of build B-2: the run
\* has recorded http_error with httpStatus 404 and builds is empty.
C25_Witness ==
  \E p \in Procs :
    /\ Exited(p)
    /\ ~Escaped(p)
    /\ before[p] = Absent
    /\ res[p].status = 404
    /\ ObservedBuildNumber(res[p].body) = JStr("B-2")
    /\ store.kind = "json"
    /\ store.doc.builds = <<>>
    /\ store.doc.checks[1].status = "http_error"
    /\ store.doc.checks[1].httpStatus = 404

\* The text is not JSON, or is not that of an object whose builds is an
\* array.
NotADocument(content) ==
  /\ content.kind = "text"
  /\ \/ ~JSONParse(content.text).ok
     \/ ~HasArrayBuilds(JSONParse(content.text).val)

\* C26: a run that finds data.json unparseable or without an array
\* builds gets no document, records no check, leaves data.json as it is
\* and exits with code 1; so does every run after it.
C26_CorruptStoreStaysAsItIs ==
  /\ \A p \in Procs :
       (pc[p] # "idle" /\ NotADocument(before[p])) =>
         /\ loaded[p] = NoData
         /\ data[p] = NoData
         /\ Escaped(p)
         /\ error[p] \in {"Unexpected token in JSON",
                          "invalid data structure in data.json", EaccesMessage}
         /\ pc[p] \in {"catch", "exited"}
         /\ store = before[p]
         /\ recorded[p] = <<>>
         /\ saves[p] = 0
         /\ Exited(p) => (exitCode[p] = 1 /\ swallowed[p] /\ loads[p] = 2)
  /\ NotADocument(store) =>
       \A p \in Procs : pc[p] \in {"idle", "catch", "exited"} \/ before[p] # store

\* The second of two runs on a data.json whose builds is not an array
\* has exited: the text is the one the first run found, no check is in it.
C26_Witness ==
  \E p \in Procs :
    /\ Exited(p)
    /\ left = 0
    /\ log = <<>>
    /\ before[p].kind = "text"
    /\ JSONParse(before[p].text).ok
    /\ JSONParse(before[p].text).val.t = "obj"
    /\ ~HasArrayBuilds(JSONParse(before[p].text).val)
    /\ store = before[p]
    /\ exitCode[p] = 1

\* main's writeData has thrown: the call was the run's first of writeData.
MainSaveFailed(p) ==
  /\ error[p] = "EIO: i/o error, write"
  /\ saves[p] >= 1

\* C27: main's writeData having thrown, the document in memory, with
\* main's check and the build it found, is dropped: the handler writes
\* the document data.json held when the run began with one check added,
\* of status unknown_error, and builds as they were.
C27_HandlerDropsFailedRunsChanges ==
  \A p \in Procs :
    MainSaveFailed(p) =>
      /\ pc[p] = "catch" =>
           /\ data[p].checks[1].status # "unknown_error"
           /\ data[p].checks = Newest(<<data[p].checks[1]>> \o loaded[p].checks)
      /\ pc[p] = "catchWrite" =>
           /\ store = before[p]
           /\ data[p].builds = BuildsOf(before[p])
           /\ data[p].checks = Newest(<<check[p]>> \o ChecksOf(before[p]))
           /\ check[p] = UnknownErrorCheck("EIO: i/o error, write", check[p].checkedAt)
      /\ (Exited(p) /\ ~swallowed[p]) =>
           /\ store = Json(data[p])
           /\ store.doc.builds = BuildsOf(before[p])
           /\ store.doc.checks = Newest(<<check[p]>> \o ChecksOf(before[p]))
           /\ check[p].status = "unknown_error"
           /\ recorded[p] = <<check[p]>>
           /\ \A i \in 1..Len(store.doc.checks) :
                store.doc.checks[i].status = "ok" =>
                  store.doc.checks[i] \in {ChecksOf(before[p])[j] : j \in 1..Len(ChecksOf(before[p]))}

\* main had found B-3 on top of B-2 and B-1 and made its ok check; its
\* writeData threw; the handler has written B-2 and B-1 and three checks,
\* its own first.
C27_Witness ==
  \E p \in Procs :
    /\ Exited(p)
    /\ MainSaveFailed(p)
    /\ ~swallowed[p]
    /\ exitPlan[p] = 0
    /\ ObservedBuildNumber(res[p].body) = JStr("B-3")
    /\ before[p].kind = "json"
    /\ Len(store.doc.builds) = 2
    /\ ~Known(store.doc.builds, JStr("B-3"))
    /\ Len(store.doc.checks) = 3
    /\ store.doc.checks[1].status = "unknown_error"
    /\ store.doc.checks[1].errorMessage = "EIO: i/o error, write"

\* C28: every check of status ok in the document in data.json has the
\* buildNumber of one of the records of builds.
C28_OkCheckNamesKnownBuild ==
  store.kind = "json" =>
    \A i \in 1..Len(store.doc.checks) :
      store.doc.checks[i].status = "ok" =>
        /\ "buildNumber" \in DOMAIN store.doc.checks[i]
        /\ Known(store.doc.builds, JStr(store.doc.checks[i].buildNumber))

\* Four checks, three of them ok: the newest names B-1, which is not the
\* first of builds, and an older one names B-2.
C28_Witness ==
  /\ store.kind = "json"
  /\ Len(store.doc.checks) = 4
  /\ Len(store.doc.builds) = 3
  /\ store.doc.checks[1].status = "ok"
  /\ store.doc.checks[1].buildNumber = "B-1"
  /\ store.doc.builds[1].foundryEnv.buildNumber = JStr("B-3")
  /\ store.doc.checks[2].status = "ok"
  /\ store.doc.checks[2].buildNumber = "B-3"
  /\ store.doc.checks[3].buildNumber = "B-2"

\* The lastUpdatedAt of the document data.json holds.
LastUpdatedOf(content) == content.doc.lastUpdatedAt

\* C29: in the document in data.json no build's lastSeenAt is later than
\* lastUpdatedAt, and from one document to the next lastUpdatedAt does
\* not go back (the clock never going back).
C29_LastUpdatedLeads ==
  /\ [](store.kind = "json" =>
          \A i \in 1..Len(store.doc.builds) :
            store.doc.builds[i].lastSeenAt <= store.doc.lastUpdatedAt)
  /\ [][(store.kind = "json" /\ store'.kind = "json") =>
          LastUpdatedOf(store') >= LastUpdatedOf(store)]_vars

\* A run that began after the clock had gone on has seen B-1 again:
\* lastUpdatedAt is later than it was, B-1's lastSeenAt is equal to it
\* and B-2's is earlier.
C29_Witness ==
  \E p \in Procs :
    /\ Exited(p)
    /\ before[p].kind = "json"
    /\ store = Json(data[p])
    /\ Len(store.doc.builds) = 2
    /\ LastUpdatedOf(store) > LastUpdatedOf(before[p])
    /\ store.doc.builds[2].lastSeenAt = LastUpdatedOf(store)
    /\ store.doc.builds[1].lastSeenAt < LastUpdatedOf(store)

\* The optional fields of a check are those of its status.
FieldsFollowStatus(c) ==
  /\ c.status \in TerminalStatuses
  /\ {"checkedAt", "status", "durationMs"} \subseteq DOMAIN c
  /\ "buildNumber" \in DOMAIN c <=> c.status = "ok"
  /\ "isNewBuild" \in DOMAIN c <=> c.status = "ok"
  /\ "errorMessage" \in DOMAIN c <=> c.status # "ok"
  /\ "httpStatus" \in DOMAIN c <=>
       c.status \in {"ok", "http_error", "parse_error", "missing_build_info"}

\* C30: every check a run makes, and every check written to data.json,
\* has buildNumber and isNewBuild exactly when its status is ok,
\* errorMessage exactly when it is not, and httpStatus exactly when its
\* status is ok, http_error, parse_error or missing_build_info.
C30_OptionalFieldsFollowStatus ==
  /\ \A p \in Procs : check[p] # NoCheck => FieldsFollowStatus(check[p])
  /\ \A i \in 1..Len(log) : FieldsFollowStatus(log[i])
  /\ store.kind = "json" =>
       \A i \in 1..Len(store.doc.checks) : FieldsFollowStatus(store.doc.checks[i])

\* After a run that recorded http_error with its httpStatus, a run got a
\* response, res.text() rejected, and the unknown_error check it
\* recorded has an errorMessage and no httpStatus.
C30_Witness ==
  \E p \in Procs :
    /\ Exited(p)
    /\ res[p] # NoResponse
    /\ Len(recorded[p]) = 1
    /\ recorded[p][1].status = "unknown_error"
    /\ "httpStatus" \notin DOMAIN recorded[p][1]
    /\ recorded[p][1].errorMessage = "terminated"
    /\ Len(log) >= 2
    /\ log[2].status = "http_error"
    /\ log[2].httpStatus = 404

====
